---- MODULE Spec2Model ----
\* Model of the control loop of "HA and Failover/orchestrator.py": the
\* orchestrator's snapshot (CURRENT_MASTER, ALL_NODES), the ProxySQL routing
\* table it reads and writes (memory, runtime and disk layers), the
\* replication source configured on each node, and the cluster as the
\* orchestrator observes it (reachability, GTID sets, replication threads).
EXTENDS Integers, Sequences, FiniteSets, TLC

\* ---------------------------------------------------------------- constants
WRITE_HG == 10
READ_HG == 20
BROKEN_HG == 30
\* max_retry_count of the @keeptrying decorators on the operations of the loop
MaxRetryCount == 3

NoneVal == "None"
Nodes == {"A", "B", "C"}
SortedNodes == <<"A", "B", "C">>
HostGroups == {WRITE_HG, READ_HG, BROKEN_HG}

\* ------------------------------------------------------------------- bounds
\* transactions are numbered 1..MaxTxn; a GTID set is a set of transactions
MaxTxn == 2
GtidSets == SUBSET (1..MaxTxn)
\* iterations of the loop that are followed
MaxTicks == 2
\* calendar dates after the first one that the clock reaches
MaxDays == 1
\* calls of a whole run that do not go as expected: a connection or a
\* statement fails, or the replication threads are in an unexpected state
MaxFaults == 1
\* calls of startup and shutdown that do not go as expected
MaxLifeFaults == 2
\* the largest max_retry_count a call through the retry decorator is given
MaxRetries == 2
\* invocations followed of a call whose max_retry_count is None
MaxInvocations == 4
\* rows of a routing table a function is run on
MaxRows == 3

VARIABLES
  up,                 \* nodes a MySQL connection currently succeeds to
  first_up,           \* nodes that answered when the tick first asked
  gtid,               \* node -> @@GLOBAL.gtid_executed as read in this tick
  mem,                \* ProxySQL mysql_servers, the table the loop reads
  Master_Host,        \* node -> Master_Host of SHOW SLAVE STATUS, or NoneVal
  CURRENT_MASTER,
  ALL_NODES,
  OLD_CURRENT_MASTER,
  OLD_ALL_NODES,
  recognized_nodes,   \* sorted list fetched at the start of the tick
  contenders,         \* the set built by choose_new_master in this tick
  contender_gtids,    \* the dict built by choose_new_master in this tick
  election,           \* which return of choose_new_master was taken
  pc,                 \* where the loop is within its iteration
  calls,              \* operations issued in the current tick, in order
  ticks,              \* iterations of the loop started so far
  faults,             \* calls so far that did not go as expected
  last,               \* the previous tick's election if it was ambiguous
  kv,                 \* custom_table of ProxySQL: whether it exists, the lock
  IGNORE_START_WARNING,
  user_ignored_start_warning,
  stop,
  last_sent,          \* <<>> for None, or <<the now of the last daily report>>
  now,                \* datetime.now() of the current iteration: its date,
                      \* its hour, and the instant (no two calls give the same)
  daily,              \* date -> daily reports sent on it
  exit_code,          \* <<>> while the process runs, then <<the exit status>>
  fn                  \* a function run on its own: its arguments, its result

\* the variables of the failover loop
cluster_vars == <<up, first_up, gtid, mem, Master_Host, CURRENT_MASTER, ALL_NODES,
                  OLD_CURRENT_MASTER, OLD_ALL_NODES, recognized_nodes,
                  contenders, contender_gtids, election, last>>

\* the variables of startup, daily report and shutdown, but for the exit
\* status
running_vars == <<kv, IGNORE_START_WARNING, user_ignored_start_warning, stop,
                  last_sent, now, daily>>

\* the variables of startup, daily report and shutdown
life_vars == <<kv, IGNORE_START_WARNING, user_ignored_start_warning, stop,
               last_sent, now, daily, exit_code>>

vars == <<up, first_up, gtid, mem, Master_Host, CURRENT_MASTER, ALL_NODES,
          OLD_CURRENT_MASTER, OLD_ALL_NODES, recognized_nodes, contenders,
          contender_gtids, election, pc, calls, ticks, faults, last,
          kv, IGNORE_START_WARNING, user_ignored_start_warning, stop,
          last_sent, now, daily, exit_code, fn>>

\* ------------------------------------------------------------------ helpers
EmptyMap == [n \in {} |-> "online"]

Row(hg, host, st) == [hg |-> hg, host |-> host, st |-> st]

Restrict(f, S) == [n \in (DOMAIN f) \cap S |-> f[n]]

Put(f, k, v) == [n \in (DOMAIN f) \cup {k} |-> IF n = k THEN v ELSE f[n]]

SeqToSet(s) == {s[i] : i \in 1..Len(s)}

Call(op, node, arg, ok) == [op |-> op, node |-> node, arg |-> arg, ok |-> ok]

\* ------------------------------------------------------- ProxySQL: reading
\* get_master_from_proxysql: the single hostname of the writer hostgroup;
\* several rows are reported as a failure, no row as (True, None)
get_master_from_proxysql(tbl) ==
  LET result == {r.host : r \in {x \in tbl : x.hg = WRITE_HG}}
  IN  IF Cardinality(result) = 1
        THEN [ok |-> TRUE, host |-> CHOOSE h \in result : TRUE]
      ELSE IF Cardinality(result) > 1
        THEN [ok |-> FALSE, host |-> NoneVal]
      ELSE [ok |-> TRUE, host |-> NoneVal]

\* a variant that leaves the letters as they are
upper_unchanged(s) == s

\* str.upper() on the values the status column can hold (its CHECK
\* constraint compares UPPER(status), so a row can hold lower-case letters)
upper(s) ==
  CASE s = "online" -> "ONLINE"
    [] s = "offline_hard" -> "OFFLINE_HARD"
    [] OTHER -> s

\* get_proxysql_state_from_nodes_in_host_groups: the unified status per host
get_proxysql_state_from_nodes_in_host_groups(tbl, host_groups) ==
  LET records == {r \in tbl : r.hg \in host_groups}
      hosts == {r.host : r \in records}
      entries(h) == {r \in records : r.host = h}
  IN  [h \in hosts |->
         IF \E r \in entries(h) : r.hg = 30 THEN "broken"
         ELSE IF \A r \in entries(h) : upper(r.st) = "ONLINE" THEN "online"
         ELSE "offline"]

\* get_proxysql_nodes: sorted(set(hostnames)) over the given hostgroups
get_proxysql_nodes(tbl, host_groups) ==
  LET hosts == {r.host : r \in {x \in tbl : x.hg \in host_groups}}
  IN  SelectSeq(SortedNodes, LAMBDA n : n \in hosts)

\* ----------------------------------------------------------- retry harness
\* ------------------------------------------------------- ProxySQL: writing
\* The admin interface applies each statement when it is executed: a write
\* to mysql_servers changes the table in memory (px.mem), LOAD copies it to
\* the runtime (px.rt), SAVE copies it to disk (px.disk).  An invocation that
\* fails after some statements leaves the effect of those statements.
Stmt(t, hg, host, st) == [t |-> t, hg |-> hg, host |-> host, st |-> st]

Exec(px, s) ==
  CASE s.t = "delete_hg" ->
         [px EXCEPT !.mem = {r \in px.mem : r.hg # s.hg}]
    [] s.t = "delete_host" ->
         [px EXCEPT !.mem = {r \in px.mem : r.host # s.host}]
    [] s.t = "insert" ->
         [px EXCEPT !.mem = px.mem \cup {Row(s.hg, s.host, "ONLINE")}]
    [] s.t = "update" ->
         [px EXCEPT !.mem = {IF r.host = s.host THEN [r EXCEPT !.st = s.st]
                             ELSE r : r \in px.mem}]
    [] s.t = "load" -> [px EXCEPT !.rt = px.mem]
    [] s.t = "save" -> [px EXCEPT !.disk = px.mem]

RECURSIVE ExecFirst(_, _, _)
ExecFirst(px, stmts, k) ==
  IF k = 0 \/ stmts = <<>> THEN px
  ELSE ExecFirst(Exec(px, Head(stmts)), Tail(stmts), k - 1)

\* one invocation of a ProxySQL write: o.applied statements are executed,
\* then the connection fails or an exception is caught (o.ok = FALSE), or all
\* statements and the commit go through (o.ok = TRUE)
ProxyWrite(px, stmts, o) ==
  [st |-> ExecFirst(px, stmts, o.applied), ok |-> o.ok, code |-> 0]

\* The ways the invocations of a call can go: first for the first
\* invocation, retry for the ones after it.  In a call without a fault every
\* invocation goes as expected (good); in a call with a fault the first
\* invocation goes another way (bad) and the later ones go either way.
Attempts(good, bad, may_fail) ==
  IF may_fail THEN [first |-> bad, retry |-> good \cup bad]
              ELSE [first |-> good, retry |-> good]

\* how an invocation that executes n statements can go: all of them and the
\* commit go through, or it stops after k of them
ProxyOutcomes(n, may_fail) ==
  Attempts({[applied |-> n, ok |-> TRUE]},
           {[applied |-> k, ok |-> FALSE] : k \in 0..n}, may_fail)

set_proxysql_master_stmts(selected_node) ==
  << Stmt("delete_hg", WRITE_HG, NoneVal, NoneVal),
     Stmt("insert", WRITE_HG, selected_node, NoneVal),
     Stmt("load", 0, NoneVal, NoneVal),
     Stmt("save", 0, NoneVal, NoneVal) >>

set_proxysql_master(px, selected_node, o) ==
  ProxyWrite(px, set_proxysql_master_stmts(selected_node), o)

\* a variant that adds the row of the broken hostgroup without deleting the
\* rows the node has
move_node_to_broken_hg_stmts_keep_rows(selected_node) ==
  << Stmt("insert", BROKEN_HG, selected_node, NoneVal),
     Stmt("load", 0, NoneVal, NoneVal),
     Stmt("save", 0, NoneVal, NoneVal) >>

move_node_to_broken_hg_stmts(selected_node) ==
  << Stmt("delete_host", 0, selected_node, NoneVal),
     Stmt("insert", BROKEN_HG, selected_node, NoneVal),
     Stmt("load", 0, NoneVal, NoneVal),
     Stmt("save", 0, NoneVal, NoneVal) >>

move_node_to_broken_hg(px, selected_node, o) ==
  ProxyWrite(px, move_node_to_broken_hg_stmts(selected_node), o)

set_proxysql_status_stmts(selected_node, status) ==
  << Stmt("update", 0, selected_node,
          IF status = "online" THEN "ONLINE" ELSE "OFFLINE_HARD"),
     Stmt("load", 0, NoneVal, NoneVal),
     Stmt("save", 0, NoneVal, NoneVal) >>

set_proxysql_status(px, selected_node, status, o) ==
  ProxyWrite(px, set_proxysql_status_stmts(selected_node, status), o)

\* set_proxysql_node: 'broken' moves the node to the broken hostgroup, any
\* other status is written to the rows of the node
set_proxysql_node(px, selected_node, status, o) ==
  IF status = "broken"
    THEN move_node_to_broken_hg(px, selected_node, o)
    ELSE set_proxysql_status(px, selected_node, status, o)

\* how an invocation made by set_proxysql_node can go
NodeWriteOutcomes(status, may_fail) ==
  IF status = "broken"
    THEN ProxyOutcomes(Len(move_node_to_broken_hg_stmts(NoneVal)), may_fail)
    ELSE ProxyOutcomes(Len(set_proxysql_status_stmts(NoneVal, status)), may_fail)

\* ------------------------------------------------------------ node probes
\* is_online: a connection to the node succeeds within the retries
is_online(selected_node) == selected_node \in up

\* get_gtid: (True, gtid_executed) when the query goes through
get_gtid(selected_node, executed, failed) ==
  IF selected_node \in failed
    THEN [ok |-> FALSE, gtid |-> {}]
    ELSE [ok |-> TRUE, gtid |-> executed[selected_node]]

\* GTID_SUBSET(set1, set2) as the server evaluates it: 1 iff every
\* transaction of set1 is in set2
GTID_SUBSET(set1, set2) == IF set1 \subseteq set2 THEN 1 ELSE 0

\* stop_replication: STOP SLAVE; RESET SLAVE ALL on the node.  The state is
\* the Master_Host of the node, RESET SLAVE ALL clears it.
stop_replication(src, o) ==
  [st |-> IF o.applied >= 2 THEN NoneVal ELSE src, ok |-> o.ok, code |-> 0]

StopOutcomes(may_fail) == ProxyOutcomes(2, may_fail)

\* a variant that re-points the node whatever SHOW SLAVE STATUS reports
set_replication_source_repoint(master, st, o) ==
  IF o.at \in {"connect", "show"}
    THEN [st |-> st, ok |-> FALSE, code |-> 1]
  ELSE IF o.at = "change"
    THEN [st |-> [st EXCEPT !.touched = TRUE], ok |-> FALSE, code |-> 1]
  ELSE IF o.at = "start"
    THEN [st |-> [src |-> master, touched |-> TRUE], ok |-> FALSE, code |-> 1]
  ELSE IF o.sql2 /\ o.io2
    THEN [st |-> [src |-> master, touched |-> TRUE], ok |-> TRUE, code |-> 0]
  ELSE [st |-> [src |-> master, touched |-> TRUE], ok |-> TRUE, code |-> -1]

\* One invocation of set_replication_source on a node whose state is
\* st = [src, touched]: src is its Master_Host, touched says that STOP SLAVE
\* was issued on it.  o.at is the statement that fails ("none": no failure),
\* (o.io1, o.sql1) are the threads in the first SHOW SLAVE STATUS and
\* (o.io2, o.sql2) the threads in the one after START SLAVE.
set_replication_source(master, st, o) ==
  IF o.at \in {"connect", "show"}
    THEN [st |-> st, ok |-> FALSE, code |-> 1]
  ELSE IF st.src # NoneVal /\ st.src = master /\ o.io1 /\ o.sql1
    THEN [st |-> st, ok |-> TRUE, code |-> 0]
  ELSE IF o.at = "change"
    THEN [st |-> [st EXCEPT !.touched = TRUE], ok |-> FALSE, code |-> 1]
  ELSE IF o.at = "start"
    THEN [st |-> [src |-> master, touched |-> TRUE], ok |-> FALSE, code |-> 1]
  ELSE IF o.sql2 /\ o.io2
    THEN [st |-> [src |-> master, touched |-> TRUE], ok |-> TRUE, code |-> 0]
  ELSE [st |-> [src |-> master, touched |-> TRUE], ok |-> TRUE, code |-> -1]

ReplOutcome(at, io1, sql1, io2, sql2) ==
  [at |-> at, io1 |-> io1, sql1 |-> sql1, io2 |-> io2, sql2 |-> sql2]

\* How an invocation of set_replication_source can go.  Expected: no
\* statement fails; a master that answers has both threads of the node
\* running, before and after START SLAVE; under a master that does not
\* answer the threads do not come up after START SLAVE, and before it the
\* node may still report them running.  Anything else, a failed connection
\* or statement or threads in another state, is a fault.
ReplExpected(master_online) ==
  {ReplOutcome("none", a, a, master_online, master_online) :
     a \in IF master_online THEN {TRUE} ELSE BOOLEAN}

ReplOutcomes(master_online, may_fail) ==
  Attempts(ReplExpected(master_online),
           ({ReplOutcome("none", a, b, c, d) : a, b, c, d \in BOOLEAN}
              \ ReplExpected(master_online))
             \cup {ReplOutcome(at, FALSE, FALSE, FALSE, FALSE) :
                     at \in {"connect", "show", "change", "start"}},
           may_fail)

\* ---------------------------------------------------------------- election
Perms(S) == {f \in [1..Cardinality(S) -> S] : \A i, j \in DOMAIN f : f[i] = f[j] => i = j}

\* a variant that falls back to the first contender when none contains all
\* the others
most_advanced_or_first(order, cg) ==
  IF order = <<>> THEN NoneVal ELSE Head(order)

\* the loop of choose_new_master over contender_gtids.items(): the first
\* node, in the iteration order of the dict, whose GTID set contains the set
\* of every other contender
RECURSIVE most_advanced(_, _)
most_advanced(order, cg) ==
  IF order = <<>> THEN NoneVal
  ELSE LET node1 == Head(order)
       IN  IF \A node2 \in DOMAIN cg :
                node2 = node1 \/ GTID_SUBSET(cg[node2], cg[node1]) # 0
             THEN node1
             ELSE most_advanced(Tail(order), cg)

\* the GTID_SUBSET statements the inner loop executes for node1 over the
\* nodes left of the dict: it passes over node1 and breaks at the first 0
RECURSIVE statements_for(_, _, _)
statements_for(node1, left, cg) ==
  IF left = <<>> THEN 0
  ELSE IF Head(left) = node1 THEN statements_for(node1, Tail(left), cg)
  ELSE IF GTID_SUBSET(cg[Head(left)], cg[node1]) = 0 THEN 1
  ELSE 1 + statements_for(node1, Tail(left), cg)

\* the statements the two loops execute when none of them raises, the
\* outer loop from the nodes left on, up to the return of a winner
RECURSIVE statements(_, _, _)
statements(left, order, cg) ==
  IF left = <<>> THEN 0
  ELSE statements_for(Head(left), order, cg)
         + (IF most_advanced(<<Head(left)>>, cg) # NoneVal THEN 0
            ELSE statements(Tail(left), order, cg))

\* how the use of check_node goes: connect says that mysql_connect gives a
\* connection, cursor that conn.cursor() gives a cursor (it raises
\* otherwise), raises is the number of the statement on the cursor that
\* raises (0: none does)
Oracle(connect, cursor, raises) ==
  [connect |-> connect, cursor |-> cursor, raises |-> raises]

\* a variant that lets broken nodes stand for election
contenders_of_unfiltered(current_master, all_nodes) ==
  {node \in DOMAIN all_nodes : node # current_master /\ is_online(node)}

\* the contenders and the GTID sets choose_new_master collects
contenders_of(current_master, all_nodes) ==
  {node \in DOMAIN all_nodes :
     all_nodes[node] # "broken" /\ node # current_master /\ is_online(node)}

contender_gtids_of(cands, executed, failed) ==
  LET kept == {n \in cands : get_gtid(n, executed, failed).ok
                               /\ get_gtid(n, executed, failed).gtid # {}}
  IN  [n \in kept |-> get_gtid(n, executed, failed).gtid]

\* a variant that, without a connection to check_node, takes the first
\* contender with a GTID set
choose_new_master_unchecked(current_master, all_nodes, executed, failed, order, oracle) ==
  LET cands == contenders_of(current_master, all_nodes)
      cg == contender_gtids_of(cands, executed, failed)
  IN  IF cands = {} \/ DOMAIN cg = {}
        THEN [ok |-> FALSE, node |-> NoneVal, contenders |-> cands, cg |-> cg,
              path |-> IF cands = {} THEN "no_contenders" ELSE "no_gtids"]
      ELSE IF ~oracle.connect
        THEN [ok |-> TRUE, node |-> Head(order), contenders |-> cands,
              cg |-> cg, path |-> "no_oracle"]
      ELSE IF ~oracle.cursor \/ oracle.raises \in 1..statements(order, order, cg)
        THEN [ok |-> FALSE, node |-> NoneVal, contenders |-> cands, cg |-> cg,
              path |-> "raised"]
      ELSE IF most_advanced(order, cg) # NoneVal
        THEN [ok |-> TRUE, node |-> most_advanced(order, cg),
              contenders |-> cands, cg |-> cg, path |-> "winner"]
      ELSE [ok |-> FALSE, node |-> NoneVal, contenders |-> cands, cg |-> cg,
            path |-> "diverged"]

\* choose_new_master.  executed: the GTID sets of the nodes; failed: the
\* contenders whose get_gtid fails; order: the iteration order of
\* contender_gtids (the order of a Python set of strings, which the program
\* does not fix); oracle: how the use of check_node goes.  conn.cursor() or
\* a statement that raises is caught nowhere: the connection is closed and
\* the exception leaves the function (path "raised", no result).
choose_new_master(current_master, all_nodes, executed, failed, order, oracle) ==
  LET cands == contenders_of(current_master, all_nodes)
      cg == contender_gtids_of(cands, executed, failed)
      winner == most_advanced(order, cg)
      result(ok, node, path) ==
        [ok |-> ok, node |-> node, contenders |-> cands, cg |-> cg,
         path |-> path]
  IN  IF cands = {} THEN result(FALSE, NoneVal, "no_contenders")
      ELSE IF DOMAIN cg = {} THEN result(FALSE, NoneVal, "no_gtids")
      ELSE IF ~oracle.connect THEN result(FALSE, NoneVal, "no_oracle")
      ELSE IF ~oracle.cursor \/ oracle.raises \in 1..statements(order, order, cg)
        THEN result(FALSE, NoneVal, "raised")
      ELSE IF winner # NoneVal THEN result(TRUE, winner, "winner")
      ELSE result(FALSE, NoneVal, "diverged")

\* The GTID sets the contenders can report: get_gtid is called for the
\* contenders only, and each of them can report any set of transactions.
GtidDraws(cands) ==
  {[n \in Nodes |-> IF n \in cands THEN h[n] ELSE {}] :
     h \in [cands -> GtidSets]}

\* ----------------------------------------------------------- initial state
\* The routing table at startup: a writer row for A, which may also have a
\* reader row (as a master promoted by an earlier run has); B ONLINE in the
\* reader hostgroup; C in the reader hostgroup, ONLINE or OFFLINE_HARD, or in
\* the broken hostgroup.  B and C replicate from A.  The snapshot is built
\* from the table as at startup.
InitTables ==
  {{Row(WRITE_HG, "A", "ONLINE"), b, c} \cup a :
     a \in {{}, {Row(READ_HG, "A", "ONLINE")}},
     b \in {Row(READ_HG, "B", "ONLINE")},
     c \in {Row(READ_HG, "C", "ONLINE"), Row(READ_HG, "C", "OFFLINE_HARD"),
            Row(BROKEN_HG, "C", "ONLINE")}}

\* --email-send-hour, at its default
EMAIL_SEND_HOUR == 12

\* the hours the clock is read at.  The program compares the hour with
\* EMAIL_SEND_HOUR and with nothing else, so the hour before it stands for
\* the earlier hours of a day and the hour after it for the later ones.
Hours == (EMAIL_SEND_HOUR - 1)..(EMAIL_SEND_HOUR + 1)

Dates == 0..MaxDays

\* the lifecycle variables while the loop runs after a start without a lock
LifeRunning ==
  /\ kv = [exists |-> TRUE, lock |-> "1"]
  /\ IGNORE_START_WARNING = FALSE
  /\ user_ignored_start_warning = FALSE
  /\ stop = FALSE
  /\ last_sent = <<>>
  /\ now = [date |-> 0, hour |-> 0, at |-> 0]
  /\ daily = [d \in Dates |-> 0]
  /\ exit_code = <<>>

NoElection ==
  [election |-> "none", contenders |-> {}, cg |-> EmptyMap,
   gtid |-> [n \in Nodes |-> {}], up |-> {}, same |-> FALSE]

Init ==
  /\ mem \in InitTables
  /\ Master_Host = [n \in Nodes |-> IF n = "A" THEN NoneVal ELSE "A"]
  /\ up = {}
  /\ first_up = {}
  /\ gtid = [n \in Nodes |-> {}]
  /\ CURRENT_MASTER = get_master_from_proxysql(mem).host
  /\ ALL_NODES = get_proxysql_state_from_nodes_in_host_groups(mem, HostGroups)
  /\ OLD_CURRENT_MASTER = CURRENT_MASTER
  /\ OLD_ALL_NODES = ALL_NODES
  /\ recognized_nodes = <<>>
  /\ contenders = {}
  /\ contender_gtids = EmptyMap
  /\ election = "none"
  /\ pc = "idle"
  /\ calls = <<>>
  /\ ticks = 0
  /\ faults = 0
  /\ last = NoElection
  /\ LifeRunning
  /\ fn = NoneVal

\* The loop reads mysql_servers only, so of the three layers it is the
\* table in memory that is followed here; the runtime and the disk start
\* each call as copies of it.
Proxy(tbl) == [mem |-> tbl, rt |-> tbl, disk |-> tbl]

\* ALL_NODES.get(node)
StatusOf(all_nodes, node) ==
  IF node \in DOMAIN all_nodes THEN all_nodes[node] ELSE NoneVal

Recognized == SeqToSet(recognized_nodes)

\* A call that does not go as expected has a fault; at most MaxFaults calls
\* of a run have one.  n: the calls that had one so far.
MayFail(n) == {FALSE} \cup (IF n < MaxFaults THEN {TRUE} ELSE {})

Fault(may_fail) == IF may_fail THEN 1 ELSE 0

\* ------------------------------------------------------------ the loop
\* Start of an iteration: the snapshot copy, the recognized nodes, and the
\* removal of the nodes ProxySQL no longer lists.  Which of the recognized
\* nodes answer during this iteration is drawn here.  at: where the loop
\* is when the statement is reached.
TickStartAt(at) ==
  /\ UNCHANGED <<life_vars, fn>>
  /\ pc = at
  /\ ticks < MaxTicks
  /\ ticks' = ticks + 1
  /\ LET nodes == get_proxysql_nodes(mem, HostGroups)
     IN  /\ recognized_nodes' = nodes
         /\ ALL_NODES' = Restrict(ALL_NODES, SeqToSet(nodes))
         /\ \E u \in SUBSET SeqToSet(nodes) :
              /\ up' = u
              /\ first_up' = u
              /\ last' = [last EXCEPT !.same = (last.election = "diverged"
                                                  /\ u = last.up)]
  /\ OLD_CURRENT_MASTER' = CURRENT_MASTER
  /\ OLD_ALL_NODES' = ALL_NODES
  /\ pc' = "check"
  /\ UNCHANGED <<faults, mem, Master_Host, CURRENT_MASTER, gtid, election,
                 contenders, contender_gtids, calls>>

\* a variant that goes on to the removal of the nodes that are not in the
\* (empty) list before it skips the iteration
TickSkipped_removing ==
  /\ UNCHANGED <<life_vars, fn>>
  /\ pc = "idle"
  /\ ticks < MaxTicks
  /\ ticks' = ticks + 1
  /\ faults < MaxFaults
  /\ faults' = faults + 1
  /\ OLD_CURRENT_MASTER' = CURRENT_MASTER
  /\ OLD_ALL_NODES' = ALL_NODES
  /\ recognized_nodes' = <<>>
  /\ ALL_NODES' = EmptyMap
  /\ last' = NoElection
  /\ UNCHANGED <<up, first_up, mem, Master_Host, CURRENT_MASTER, pc, gtid,
                 election, contenders, contender_gtids, calls>>

\* get_proxysql_nodes fails on every try: the iteration is skipped
TickSkippedAt(at) ==
  /\ UNCHANGED <<life_vars, fn>>
  /\ pc = at
  /\ ticks < MaxTicks
  /\ ticks' = ticks + 1
  /\ faults < MaxFaults
  /\ faults' = faults + 1
  /\ OLD_CURRENT_MASTER' = CURRENT_MASTER
  /\ OLD_ALL_NODES' = ALL_NODES
  /\ recognized_nodes' = <<>>
  /\ last' = NoElection
  /\ pc' = "idle"
  /\ UNCHANGED <<up, first_up, mem, Master_Host, CURRENT_MASTER, ALL_NODES,
                 gtid, election, contenders, contender_gtids, calls>>

\* the loop on its own: an iteration starts where the last one ended
TickStart == TickStartAt("idle")

TickSkipped == TickSkippedAt("idle")

\* ------------------------------------------- ProxySQL: the custom table
LOCK_VARIABLE == "lock_variable"

\* str(value) for the values the program stores
str(value) == CASE value = 0 -> "0" [] value = 1 -> "1"

\* how an invocation of get_custom_value_from_proxysql_db can go: at is the
\* place where it fails by itself (the connection, the SELECT, nowhere); init
\* is how the call _init_custom_db() of its except branch goes, if it comes
\* to it (applied: CREATE TABLE was executed in one of its invocations; ok:
\* its result), and inner is the result of the call
\* get_custom_value_from_proxysql_db(variable, retry=False) after it
GetOutcome(at, init, inner) == [at |-> at, init |-> init, inner |-> inner]

\* the ways the call of _init_custom_db() in the except branch can go
InitOutcomes ==
  {[applied |-> 1, ok |-> TRUE], [applied |-> 1, ok |-> FALSE],
   [applied |-> 0, ok |-> FALSE]}

GetOutcomes(may_fail) ==
  Attempts({GetOutcome("none", [applied |-> 1, ok |-> TRUE], TRUE)},
           {GetOutcome(at, init, inner) :
              at \in {"none", "connect", "execute"}, init \in InitOutcomes,
              inner \in BOOLEAN}
             \ {GetOutcome("none", [applied |-> 1, ok |-> TRUE], TRUE)},
           may_fail)

\* CREATE TABLE IF NOT EXISTS custom_table
_init_custom_db(st, o) ==
  [st |-> IF o.applied >= 1 THEN [st EXCEPT !.exists = TRUE] ELSE st,
   ok |-> o.ok, code |-> 0]

\* SELECT value FROM custom_table WHERE variable = %s; the statement raises
\* when the table does not exist, and the except branch then calls
\* _init_custom_db(), which leaves the table created also when it returns
\* False after its CREATE TABLE, and reads once more when it returned True.
\* code is the second element of the result.
get_custom_value_from_proxysql_db(st, variable, o) ==
  IF o.at = "connect" THEN [st |-> st, ok |-> FALSE, code |-> NoneVal]
  ELSE IF o.at = "none" /\ st.exists
    THEN [st |-> st, ok |-> TRUE, code |-> st.lock]
  ELSE LET init == _init_custom_db(st, o.init)
       IN  IF init.ok /\ o.inner
             THEN [st |-> init.st, ok |-> TRUE, code |-> init.st.lock]
             ELSE [st |-> init.st, ok |-> FALSE, code |-> NoneVal]

\* INSERT OR REPLACE INTO custom_table (variable, value) VALUES (%s, %s)
\* with str(value); the statement raises when the table does not exist
upsert_custom_value_in_proxysql_db(st, variable, value, o) ==
  IF ~st.exists THEN [st |-> st, ok |-> FALSE, code |-> 0]
  ELSE [st |-> IF o.applied >= 1 THEN [st EXCEPT !.lock = str(value)] ELSE st,
        ok |-> o.ok, code |-> 0]

\* DELETE FROM custom_table WHERE variable = %s
delete_custom_value_keeps_row(st, variable, o) ==
  [st |-> st, ok |-> st.exists /\ o.ok, code |-> 0]

delete_custom_value_from_proxysql_db(st, variable, o) ==
  IF ~st.exists THEN [st |-> st, ok |-> FALSE, code |-> 0]
  ELSE [st |-> IF o.applied >= 1 THEN [st EXCEPT !.lock = NoneVal] ELSE st,
        ok |-> o.ok, code |-> 0]

\* func(*args): one invocation of the function named func on the state st
\* the invocation before it has left; o says how this invocation goes.  It
\* gives [st, ok, code].
invoke(func, args, st, o) ==
  CASE func = "set_proxysql_master" ->
         set_proxysql_master(st, args.selected_node, o)
    [] func = "set_proxysql_node" ->
         set_proxysql_node(st, args.selected_node, args.status, o)
    [] func = "stop_replication" -> stop_replication(st, o)
    [] func = "set_replication_source" ->
         set_replication_source(args.master, st, o)
    [] func = "_init_custom_db" -> _init_custom_db(st, o)
    [] func = "get_custom_value_from_proxysql_db" ->
         get_custom_value_from_proxysql_db(st, args.variable, o)
    [] func = "upsert_custom_value_in_proxysql_db" ->
         upsert_custom_value_in_proxysql_db(st, args.variable, args.value, o)
    [] func = "delete_custom_value_from_proxysql_db" ->
         delete_custom_value_from_proxysql_db(st, args.variable, o)

\* keeptrying(interval, max_retry_count): func is invoked while
\* tries <= max_retry_count; a successful result is returned at once, and the
\* result of the last invocation is returned when the loop ends.  The value
\* is the set of the results the call can give, over all the ways its
\* invocations can go (outcomes); tries is the number of invocations made
\* so far and sts the states they can have left.
RECURSIVE keeptrying(_, _, _, _, _)
keeptrying(func, args, outcomes, sts, tries) ==
  LET results == {invoke(func, args, st, o) :
                    st \in sts,
                    o \in IF tries = 0 THEN outcomes.first ELSE outcomes.retry}
      is_success == {result \in results : result.ok}
      returned(R) == {[st |-> r.st, ok |-> r.ok, code |-> r.code] : r \in R}
  IN  IF tries + 1 <= MaxRetryCount /\ results # is_success
        THEN returned(is_success)
               \cup keeptrying(func, args, outcomes,
                               {r.st : r \in results \ is_success}, tries + 1)
        ELSE returned(results)

\* the calls of the loop to the decorated operations.  tbl: mysql_servers
\* when the call starts; src: the Master_Host of the node when it starts
call_set_proxysql_master(tbl, selected_node, may_fail) ==
  keeptrying("set_proxysql_master", [selected_node |-> selected_node],
             ProxyOutcomes(Len(set_proxysql_master_stmts(selected_node)), may_fail),
             {Proxy(tbl)}, 0)

call_set_proxysql_node(tbl, selected_node, status, may_fail) ==
  keeptrying("set_proxysql_node",
             [selected_node |-> selected_node, status |-> status],
             NodeWriteOutcomes(status, may_fail), {Proxy(tbl)}, 0)

call_stop_replication(src, may_fail) ==
  keeptrying("stop_replication", EmptyMap, StopOutcomes(may_fail), {src}, 0)

call_set_replication_source(master, src, may_fail) ==
  keeptrying("set_replication_source", [master |-> master],
             ReplOutcomes(is_online(master), may_fail),
             {[src |-> src, touched |-> FALSE]}, 0)

\* the calls of startup and shutdown to the custom table.  st: the table
\* when the call starts
call_init_custom_db(st, may_fail) ==
  keeptrying("_init_custom_db", EmptyMap, ProxyOutcomes(1, may_fail), {st}, 0)

call_get_custom_value_from_proxysql_db(st, variable, may_fail) ==
  keeptrying("get_custom_value_from_proxysql_db", [variable |-> variable],
             GetOutcomes(may_fail), {st}, 0)

call_upsert_custom_value_in_proxysql_db(st, variable, value, may_fail) ==
  keeptrying("upsert_custom_value_in_proxysql_db",
             [variable |-> variable, value |-> value],
             ProxyOutcomes(1, may_fail), {st}, 0)

call_delete_custom_value_from_proxysql_db(st, variable, may_fail) ==
  keeptrying("delete_custom_value_from_proxysql_db", [variable |-> variable],
             ProxyOutcomes(1, may_fail), {st}, 0)

\* What the statements of an iteration work on: mysql_servers, the
\* Master_Host of the nodes, the snapshot, the master pointer, the calls
\* made so far in the iteration and the calls of the run that had a fault.
Here(all_nodes) ==
  [mem |-> mem, Master_Host |-> Master_Host, ALL_NODES |-> all_nodes,
   CURRENT_MASTER |-> CURRENT_MASTER, calls |-> calls, faults |-> faults]

\* set_proxysql_node(node, status); ALL_NODES[node] = status.  The result
\* of the write is not looked at.
mark(s, node, status) ==
  UNION {{[s EXCEPT !.mem = w.st.mem,
                    !.faults = @ + Fault(f),
                    !.calls = Append(@,
                      Call(IF status = "broken" THEN "move_node_to_broken_hg"
                           ELSE "set_proxysql_status", node, status, w.ok)),
                    !.ALL_NODES = Put(@, node, status)] :
          w \in call_set_proxysql_node(s.mem, node, status, f)} :
         f \in MayFail(s.faults)}

\* The nodes whose answer to is_online, when the loop over the recognized
\* nodes asks, is not the one of the primary check and the election.  The
\* loop asks the nodes that are not the master and not broken.  Each such
\* answer is a fault.  s: the iteration after the promotion.
Changed(s) ==
  {nodes \in SUBSET {n \in Recognized : /\ n # s.CURRENT_MASTER
                                         /\ StatusOf(s.ALL_NODES, n) # "broken"} :
     s.faults + Cardinality(nodes) <= MaxFaults}

\* the master is recognized and answers: no failover
MasterOnline ==
  /\ UNCHANGED <<life_vars, fn>>
  /\ pc = "check"
  /\ CURRENT_MASTER \in Recognized
  /\ is_online(CURRENT_MASTER)
  /\ pc' = "reconcile"
  /\ UNCHANGED <<ticks, faults, up, first_up, gtid, mem, Master_Host, CURRENT_MASTER,
                 ALL_NODES, OLD_CURRENT_MASTER, OLD_ALL_NODES,
                 recognized_nodes, contenders, contender_gtids, election,
                 calls, last>>

\* del ALL_NODES[CURRENT_MASTER] for a master that is not recognized: the key
\* was removed with the other unrecognized nodes (or never was one, for
\* None), so the statement raises KeyError and the process ends, with the
\* exit status of an exception nothing catches
MasterKeyError ==
  /\ UNCHANGED <<running_vars, fn>>
  /\ pc = "check"
  /\ CURRENT_MASTER \notin Recognized
  /\ CURRENT_MASTER \notin DOMAIN ALL_NODES
  /\ pc' = "crashed"
  /\ exit_code' = <<1>>
  /\ UNCHANGED <<ticks, faults, up, first_up, gtid, mem, Master_Host, CURRENT_MASTER,
                 ALL_NODES, OLD_CURRENT_MASTER, OLD_ALL_NODES,
                 recognized_nodes, contenders, contender_gtids, election,
                 calls, last>>

\* a variant that goes on with the promotion whatever set_proxysql_master
\* returns
promote_unconditionally(s, success, NEW_MASTER) ==
  IF ~(success /\ NEW_MASTER # NoneVal) THEN {s}
  ELSE UNION {UNION {
         LET s1 == [s EXCEPT !.mem = w.st.mem,
                             !.faults = @ + Fault(f),
                             !.calls = Append(@, Call("set_proxysql_master",
                                                      NEW_MASTER, NoneVal, w.ok))]
         IN  UNION {UNION {
                    mark([s1 EXCEPT !.Master_Host[NEW_MASTER] = r.st,
                                    !.faults = @ + Fault(f2),
                                    !.calls = Append(@, Call("stop_replication",
                                                NEW_MASTER, NoneVal, r.ok)),
                                    !.CURRENT_MASTER = NEW_MASTER],
                         NEW_MASTER, "online") :
                    r \in call_stop_replication(s1.Master_Host[NEW_MASTER], f2)} :
                  f2 \in MayFail(s1.faults)} :
         w \in call_set_proxysql_master(s.mem, NEW_MASTER, f)} :
       f \in MayFail(s.faults)}

\* if success and NEW_MASTER and set_proxysql_master(NEW_MASTER):
\*   stop_replication(NEW_MASTER), whose result is not looked at;
\*   CURRENT_MASTER = NEW_MASTER; set_proxysql_node(CURRENT_MASTER, "online");
\*   ALL_NODES[CURRENT_MASTER] = "online"
promote(s, success, NEW_MASTER) ==
  IF ~(success /\ NEW_MASTER # NoneVal) THEN {s}
  ELSE UNION {UNION {
         LET s1 == [s EXCEPT !.mem = w.st.mem,
                             !.faults = @ + Fault(f),
                             !.calls = Append(@, Call("set_proxysql_master",
                                                      NEW_MASTER, NoneVal, w.ok))]
         IN  IF ~w.ok THEN {s1}
             ELSE UNION {UNION {
                    mark([s1 EXCEPT !.Master_Host[NEW_MASTER] = r.st,
                                    !.faults = @ + Fault(f2),
                                    !.calls = Append(@, Call("stop_replication",
                                                NEW_MASTER, NoneVal, r.ok)),
                                    !.CURRENT_MASTER = NEW_MASTER],
                         NEW_MASTER, "online") :
                    r \in call_stop_replication(s1.Master_Host[NEW_MASTER], f2)} :
                  f2 \in MayFail(s1.faults)} :
         w \in call_set_proxysql_master(s.mem, NEW_MASTER, f)} :
       f \in MayFail(s.faults)}

\* The master is not recognized or does not answer: choose_new_master, and
\* the promotion of the node it returns.  The GTID sets the contenders
\* report are drawn here; a contender whose get_gtid fails reports none.
\* An election with a fault has a get_gtid that fails, no connection to
\* check_node, or a conn.cursor() or a statement on it that raises.
\* An exception that leaves choose_new_master is caught nowhere and ends the
\* process.  The loop that follows asks the nodes anew: which of them
\* answer then is drawn here.
Failover ==
  /\ UNCHANGED <<running_vars, fn>>
  /\ pc = "check"
  /\ \/ CURRENT_MASTER \notin Recognized /\ CURRENT_MASTER \in DOMAIN ALL_NODES
     \/ CURRENT_MASTER \in Recognized /\ ~is_online(CURRENT_MASTER)
  /\ LET all_nodes == IF CURRENT_MASTER \notin Recognized
                        THEN Restrict(ALL_NODES, DOMAIN ALL_NODES \ {CURRENT_MASTER})
                        ELSE ALL_NODES
         cs == contenders_of(CURRENT_MASTER, all_nodes)
     IN  \E g \in GtidDraws(cs) :
           /\ gtid' = g
           /\ last' = [last EXCEPT !.same = /\ last.same
                                            /\ \A n \in cs : g[n] = last.gtid[n]]
           /\ \E f \in MayFail(faults) :
              \E failed \in IF f THEN SUBSET {n \in cs : g[n] = {}} ELSE {{}},
                 oracle \in IF f
                             THEN {Oracle(FALSE, TRUE, 0),
                                   Oracle(TRUE, FALSE, 0)}
                                    \cup {Oracle(TRUE, TRUE, k) :
                                            k \in 0..(Cardinality(cs)
                                                        * (Cardinality(cs) - 1))}
                             ELSE {Oracle(TRUE, TRUE, 0)} :
              \E order \in Perms({n \in cs \ failed : g[n] # {}}) :
                LET r == choose_new_master(CURRENT_MASTER, all_nodes, g, failed, order, oracle)
                    s == [Here(all_nodes) EXCEPT !.faults = @ + Fault(f)]
                IN  /\ f => \/ failed # {}
                             \/ ~oracle.connect
                             \/ r.path = "raised"
                    /\ contenders' = r.contenders
                    /\ contender_gtids' = r.cg
                    /\ election' = r.path
                    /\ \E t \in promote(s, r.ok, r.node) :
                         /\ mem' = t.mem
                         /\ Master_Host' = t.Master_Host
                         /\ ALL_NODES' = t.ALL_NODES
                         /\ CURRENT_MASTER' = t.CURRENT_MASTER
                         /\ calls' = t.calls
                         /\ IF r.path = "raised"
                              THEN /\ pc' = "crashed"
                                   /\ exit_code' = <<1>>
                                   /\ faults' = t.faults
                                   /\ UNCHANGED up
                              ELSE /\ pc' = "reconcile"
                                   /\ UNCHANGED exit_code
                                   /\ \E changed \in Changed(t) :
                                        /\ faults' = t.faults
                                                        + Cardinality(changed)
                                        /\ up' = (up \ changed)
                                                   \cup (changed \ up)
  /\ UNCHANGED <<ticks, first_up, OLD_CURRENT_MASTER, OLD_ALL_NODES,
                 recognized_nodes>>

\* the status that follows from (success, res_code)
status_for(success, res_code) ==
  IF ~success THEN "offline"
  ELSE IF res_code = -1 THEN "broken"
  ELSE IF res_code = 0 THEN "online"
  ELSE NoneVal

\* The body of `for node in recognized_nodes`: the master is passed over; a
\* node that is not broken and answers gets set_replication_source and the
\* status that follows from its result; a node that is not broken and does
\* not answer is set offline; a broken node is passed over.
reconcile_node(s, node) ==
  IF node = s.CURRENT_MASTER THEN {s}
  ELSE IF StatusOf(s.ALL_NODES, node) # "broken" /\ is_online(node)
    THEN UNION {UNION {
           LET status == status_for(r.ok, r.code)
               s1 == [s EXCEPT !.Master_Host[node] = r.st.src,
                               !.faults = @ + Fault(f),
                               !.calls = Append(@,
                                 Call("set_replication_source", node,
                                      [master |-> s.CURRENT_MASTER,
                                       code |-> r.code,
                                       touched |-> r.st.touched], r.ok))]
           IN  IF status = NoneVal THEN {s1} ELSE mark(s1, node, status) :
           r \in call_set_replication_source(s.CURRENT_MASTER,
                                             s.Master_Host[node], f)} :
         f \in MayFail(s.faults)}
  ELSE IF StatusOf(s.ALL_NODES, node) # "broken"
    THEN mark(s, node, "offline")
  ELSE {s}

\* the loop over recognized_nodes[i..]
RECURSIVE reconcile(_, _)
reconcile(s, i) ==
  IF i > Len(recognized_nodes) THEN {s}
  ELSE UNION {reconcile(t, i + 1) : t \in reconcile_node(s, recognized_nodes[i])}

\* a variant that looks at the master only
topology_changed_master_only(all_nodes) ==
  CURRENT_MASTER # OLD_CURRENT_MASTER

\* if CURRENT_MASTER != OLD_CURRENT_MASTER or OLD_ALL_NODES != ALL_NODES
topology_changed(all_nodes) ==
  CURRENT_MASTER # OLD_CURRENT_MASTER \/ OLD_ALL_NODES # all_nodes

\* the loop over the recognized nodes and the change notification
Reconcile ==
  /\ UNCHANGED <<life_vars, fn>>
  /\ pc = "reconcile"
  /\ \E t \in reconcile(Here(ALL_NODES), 1) :
       /\ mem' = t.mem
       /\ Master_Host' = t.Master_Host
       /\ ALL_NODES' = t.ALL_NODES
       /\ faults' = t.faults
       /\ calls' = IF topology_changed(t.ALL_NODES)
                     THEN Append(t.calls, Call("send_email", NoneVal,
                                               "topology_change", TRUE))
                     ELSE t.calls
  /\ pc' = "sleep"
  /\ UNCHANGED <<ticks, up, first_up, gtid, CURRENT_MASTER, OLD_CURRENT_MASTER,
                 OLD_ALL_NODES, recognized_nodes, contenders,
                 contender_gtids, election, last>>

\* the calls of the startup and the daily reports, which are no part of
\* what an iteration does to the cluster
made_before_the_loop(call) ==
  /\ call.op \notin {"set_proxysql_master", "stop_replication",
                      "set_replication_source", "set_proxysql_status",
                      "move_node_to_broken_hg"}
  /\ ~(call.op = "send_email" /\ call.arg = "topology_change")

\* time.sleep(CHECK_INTERVAL): the iteration is over.  What it has drawn
\* and recorded (the nodes that answered, the GTID sets, the election, the
\* calls) ends with it; of an election without a winner the next iteration's
\* is compared with, a copy is kept.
Sleep ==
  /\ UNCHANGED <<life_vars, fn>>
  /\ pc = "sleep"
  /\ last' = IF election = "diverged"
               THEN [election |-> election, contenders |-> contenders,
                     cg |-> contender_gtids, gtid |-> gtid, up |-> first_up,
                     same |-> FALSE]
               ELSE NoElection
  /\ up' = {}
  /\ first_up' = {}
  /\ gtid' = [n \in Nodes |-> {}]
  /\ election' = "none"
  /\ contenders' = {}
  /\ contender_gtids' = EmptyMap
  /\ calls' = SelectSeq(calls, made_before_the_loop)
  /\ pc' = "idle"
  /\ UNCHANGED <<ticks, faults, mem, Master_Host, CURRENT_MASTER, ALL_NODES,
                 OLD_CURRENT_MASTER, OLD_ALL_NODES, recognized_nodes>>

Next ==
  \/ TickStart
  \/ TickSkipped
  \/ MasterOnline
  \/ MasterKeyError
  \/ Failover
  \/ Reconcile
  \/ Sleep

Spec == Init /\ [][Next]_vars

\* ------------------------------------------------- one function at a time
\* the loop variables before the startup state is built from ProxySQL
ClusterUnbuilt(tbl) ==
  /\ mem = tbl
  /\ Master_Host = [n \in Nodes |-> IF n = "A" THEN NoneVal ELSE "A"]
  /\ up = {}
  /\ first_up = {}
  /\ gtid = [n \in Nodes |-> {}]
  /\ CURRENT_MASTER = NoneVal
  /\ ALL_NODES = EmptyMap
  /\ OLD_CURRENT_MASTER = NoneVal
  /\ OLD_ALL_NODES = EmptyMap
  /\ recognized_nodes = <<>>
  /\ contenders = {}
  /\ contender_gtids = EmptyMap
  /\ election = "none"
  /\ last = NoElection

\* set_replication_source(master, selected_node), one invocation: every
\* master, every Master_Host of the node, every way the invocation can go
ReplInit ==
  /\ fn \in {[master |-> m, st |-> [src |-> src, touched |-> FALSE], o |-> o,
               result |-> <<>>] :
               m \in Nodes, src \in Nodes \cup {NoneVal},
               o \in {ReplOutcome(at, a, b, c, d) :
                        at \in {"none", "connect", "show", "change", "start"},
                        a \in BOOLEAN, b \in BOOLEAN, c \in BOOLEAN,
                        d \in BOOLEAN}}
  /\ ClusterUnbuilt({})
  /\ LifeRunning
  /\ pc = "fn" /\ calls = <<>> /\ ticks = 0 /\ faults = 0

ReplInvoke ==
  /\ fn.result = <<>>
  /\ fn' = [fn EXCEPT !.result =
                       <<set_replication_source(fn.master, fn.st, fn.o)>>]
  /\ UNCHANGED <<cluster_vars, life_vars, pc, calls, ticks, faults>>

ReplNext == ReplInvoke

ReplSpec == ReplInit /\ [][ReplNext]_vars

\* ------------------------------------------------- the retry decorator
\* What an invocation of a wrapped function gives: it raises, or it returns
\* a bare value (elems holds it) or a tuple (elems holds its elements)
Result(raises, tuple, elems) ==
  [raises |-> raises, tuple |-> tuple, elems |-> elems]

Bare(flag) == Result(FALSE, FALSE, <<flag>>)

Tuple(elems) == Result(FALSE, TRUE, elems)

Raises == Result(TRUE, FALSE, <<>>)

\* the returns of the decorated functions of the script: a flag, a tuple of
\* a flag and a value, and the empty tuple the decorator provides for
FuncResults ==
  {Bare(b) : b \in BOOLEAN} \cup {Tuple(<<>>)}
    \cup {Tuple(<<b, v>>) : b \in BOOLEAN, v \in {0, -1}}

\* is_success of wrapper: result[0] of a tuple that is not empty, False for
\* the empty tuple, and the result itself otherwise
is_success_bare_only(result) == ~result.tuple /\ result.elems[1]

is_success(result) ==
  IF result.tuple
    THEN IF result.elems # <<>> THEN result.elems[1] ELSE FALSE
    ELSE result.elems[1]

\* while max_retry_count is None or tries <= max_retry_count; None is <<>>
may_try_once_more(max_retry_count, tries) ==
  IF max_retry_count = <<>> THEN TRUE ELSE tries <= max_retry_count[1] + 1

may_try(max_retry_count, tries) ==
  IF max_retry_count = <<>> THEN TRUE ELSE tries <= max_retry_count[1]

\* the events of a call: an invocation and what it gave, a sleep and its
\* length
Invoked(result) == [ev |-> "func", result |-> result, secs |-> 0]

Slept(secs) == [ev |-> "sleep", result |-> Raises, secs |-> secs]

\* a call of a function decorated with keeptrying(interval,
\* max_retry_count) starts
KeepInit ==
  /\ fn \in {[interval |-> i, max_retry_count |-> n, tries |-> 0,
               result |-> <<>>, events |-> <<>>, at |-> "while"] :
               i \in {2, 3},
               n \in {<<>>} \cup {<<k>> : k \in 0..MaxRetries}}
  /\ ClusterUnbuilt({})
  /\ LifeRunning
  /\ pc = "fn" /\ calls = <<>> /\ ticks = 0 /\ faults = 0

\* one pass of the while loop of wrapper: tries += 1; result = func(...);
\* a successful result is returned, after another one the wrapper sleeps.
\* An exception of func leaves the wrapper, which catches nothing.
wrapper_try ==
  /\ fn.at = "while"
  /\ may_try(fn.max_retry_count, fn.tries)
  /\ fn.tries < MaxInvocations
  /\ \E result \in FuncResults \cup {Raises} :
       fn' = IF result.raises
               THEN [fn EXCEPT !.tries = @ + 1,
                               !.events = Append(@, Invoked(result)),
                               !.at = "raised"]
             ELSE IF is_success(result)
               THEN [fn EXCEPT !.tries = @ + 1,
                               !.result = <<result>>,
                               !.events = Append(@, Invoked(result)),
                               !.at = "returned"]
             ELSE [fn EXCEPT !.tries = @ + 1,
                             !.result = <<result>>,
                             !.events = @ \o <<Invoked(result),
                                                Slept(fn.interval)>>]
  /\ UNCHANGED <<cluster_vars, life_vars, pc, calls, ticks, faults>>

\* the while loop has ended: return result
wrapper_return ==
  /\ fn.at = "while"
  /\ ~may_try(fn.max_retry_count, fn.tries)
  /\ fn' = [fn EXCEPT !.at = "returned"]
  /\ UNCHANGED <<cluster_vars, life_vars, pc, calls, ticks, faults>>

KeepNext == wrapper_try \/ wrapper_return

KeepSpec == KeepInit /\ [][KeepNext]_vars

\* ------------------------------------------ startup, daily report, shutdown
\* the custom table when the process starts: no table, a table without the
\* lock, a table with the lock of an earlier process
KvStates ==
  {[exists |-> FALSE, lock |-> NoneVal], [exists |-> TRUE, lock |-> NoneVal],
   [exists |-> TRUE, lock |-> "1"]}

\* what input() can return; EOF stands for the EOFError of a closed stdin
Answers == {"y", "Y", "n", "N", "yes", ""}

EOF == "EOFError"

\* user_response.lower()
lower_unchanged(s) == s

lower(s) == CASE s = "Y" -> "y" [] s = "N" -> "n" [] OTHER -> s

\* the Subject line of generate_script_started_email_text
generate_script_started_email_text(ignored_start_warning) ==
  IF ignored_start_warning
    THEN "WARNING: Orchestrator Script Started Dangerously"
    ELSE "Orchestrator Script Started"

generate_script_stopped_safely_email_text == "Orchestrator Script Stopped Safely"

generate_daily_report_email_text == "Orchestrator Daily Report"

\* now.hour == EMAIL_SEND_HOUR and
\* (last_sent is None or last_sent.date() != now.date())
daily_report_due_hour_only(t, sent) == t.hour = EMAIL_SEND_HOUR

daily_report_due(t, sent) ==
  /\ t.hour = EMAIL_SEND_HOUR
  /\ (sent = <<>> \/ sent[1].date # t.date)

\* datetime.now() when the last call gave t: a later instant, on the same
\* date at the same or a later hour, or on a later date
Later(t) ==
  {[date |-> d, hour |-> h, at |-> t.at + 1] :
     d \in {x \in Dates : x >= t.date},
     h \in Hours} \ {[date |-> t.date, hour |-> h, at |-> t.at + 1] :
                       h \in 0..(t.hour - 1)}

\* the routing tables of this part, of a cluster of a primary and one
\* replica: one writer, and two rows in the writer hostgroup
LifeTables ==
  {{Row(WRITE_HG, "A", "ONLINE"), Row(READ_HG, "B", "ONLINE")},
   {Row(WRITE_HG, "A", "ONLINE"), Row(WRITE_HG, "B", "ONLINE")}}

\* n: the calls of startup and shutdown that had a fault so far
LifeMayFail(n) == {FALSE} \cup (IF n < MaxLifeFaults THEN {TRUE} ELSE {})

LifeInit ==
  /\ kv \in KvStates
  /\ IGNORE_START_WARNING \in BOOLEAN
  /\ user_ignored_start_warning = FALSE
  /\ stop = FALSE
  /\ last_sent = <<>>
  /\ now = [date |-> 0, hour |-> 0, at |-> 0]
  /\ daily = [d \in Dates |-> 0]
  /\ exit_code = <<>>
  /\ \E tbl \in LifeTables : ClusterUnbuilt(tbl)
  /\ pc = "start" /\ calls = <<>> /\ ticks = 0 /\ faults = 0
  /\ fn = NoneVal

\* _init_custom_db(): the result is not looked at
InitCustomDb ==
  /\ pc = "start"
  /\ \E f \in LifeMayFail(faults) : \E r \in call_init_custom_db(kv, f) :
       /\ kv' = r.st
       /\ faults' = faults + Fault(f)
       /\ calls' = Append(calls, Call("_init_custom_db", NoneVal, NoneVal, r.ok))
  /\ pc' = "lock"
  /\ UNCHANGED <<cluster_vars, ticks, fn, IGNORE_START_WARNING,
                 user_ignored_start_warning, stop, last_sent, now, daily,
                 exit_code>>

\* sys.exit(code): the exit status of the process, which keeps the low
\* eight bits of the code
sys_exit(code) == code % 256

\* success, lock_value = get_custom_value_from_proxysql_db(LOCK_VARIABLE);
\* if not success: sys.exit(1001)
LockUnreadable ==
  /\ pc = "lock"
  /\ \E f \in LifeMayFail(faults) :
       \E r \in call_get_custom_value_from_proxysql_db(kv, LOCK_VARIABLE, f) :
         /\ ~r.ok
         /\ kv' = r.st
         /\ faults' = faults + Fault(f)
         /\ calls' = Append(calls, Call("get_custom_value_from_proxysql_db",
                                        NoneVal, r.code, r.ok))
  /\ exit_code' = <<sys_exit(1001)>>
  /\ pc' = "exited"
  /\ UNCHANGED <<cluster_vars, ticks, fn, IGNORE_START_WARNING,
                 user_ignored_start_warning, stop, last_sent, now, daily>>

\* lock_value is None: upsert_custom_value_in_proxysql_db(LOCK_VARIABLE, 1),
\* whose failure is logged
LockAbsent ==
  /\ pc = "lock"
  /\ \E f \in LifeMayFail(faults) :
       \E r \in call_get_custom_value_from_proxysql_db(kv, LOCK_VARIABLE, f) :
         /\ r.ok
         /\ r.code = NoneVal
         /\ \E g \in LifeMayFail(faults + Fault(f)) :
              \E w \in call_upsert_custom_value_in_proxysql_db(
                          r.st, LOCK_VARIABLE, 1, g) :
                /\ kv' = w.st
                /\ faults' = faults + Fault(f) + Fault(g)
                /\ calls' = calls \o
                     << Call("get_custom_value_from_proxysql_db", NoneVal,
                             r.code, r.ok),
                        Call("upsert_custom_value_in_proxysql_db", NoneVal,
                             str(1), w.ok) >>
  /\ pc' = "started"
  /\ UNCHANGED <<cluster_vars, ticks, fn, IGNORE_START_WARNING,
                 user_ignored_start_warning, stop, last_sent, now, daily,
                 exit_code>>

\* the lock is there and IGNORE_START_WARNING: a log line
LockPresentIgnored ==
  /\ pc = "lock"
  /\ IGNORE_START_WARNING
  /\ \E f \in LifeMayFail(faults) :
       \E r \in call_get_custom_value_from_proxysql_db(kv, LOCK_VARIABLE, f) :
         /\ r.ok
         /\ r.code # NoneVal
         /\ kv' = r.st
         /\ faults' = faults + Fault(f)
         /\ calls' = Append(calls, Call("get_custom_value_from_proxysql_db",
                                        NoneVal, r.code, r.ok))
  /\ pc' = "started"
  /\ UNCHANGED <<cluster_vars, ticks, fn, IGNORE_START_WARNING,
                 user_ignored_start_warning, stop, last_sent, now, daily,
                 exit_code>>

\* the lock is there and not IGNORE_START_WARNING: input(); 'y' after
\* lower() continues, another answer is sys.exit(), and a closed stdin ends
\* the process with the EOFError
LockPresentAsked ==
  /\ pc = "lock"
  /\ ~IGNORE_START_WARNING
  /\ \E f \in LifeMayFail(faults) :
       \E r \in call_get_custom_value_from_proxysql_db(kv, LOCK_VARIABLE, f) :
         /\ r.ok
         /\ r.code # NoneVal
         /\ kv' = r.st
         /\ faults' = faults + Fault(f)
         /\ \E user_response \in Answers \cup {EOF} :
              /\ calls' = calls \o
                   << Call("get_custom_value_from_proxysql_db", NoneVal,
                           r.code, r.ok),
                      Call("input", NoneVal, user_response, TRUE) >>
              /\ IF user_response = EOF
                   THEN /\ exit_code' = <<1>>
                        /\ pc' = "exited"
                        /\ UNCHANGED user_ignored_start_warning
                   ELSE IF lower(user_response) = "y"
                     THEN /\ user_ignored_start_warning' = TRUE
                          /\ pc' = "started"
                          /\ UNCHANGED exit_code
                     ELSE /\ exit_code' = <<0>>
                          /\ pc' = "exited"
                          /\ UNCHANGED user_ignored_start_warning
  /\ UNCHANGED <<cluster_vars, ticks, fn, IGNORE_START_WARNING, stop,
                 last_sent, now, daily>>

\* send_email(generate_script_started_email_text(user_ignored_start_warning))
Started ==
  /\ pc = "started"
  /\ calls' = Append(calls,
       Call("send_email", NoneVal,
            generate_script_started_email_text(user_ignored_start_warning),
            TRUE))
  /\ pc' = "get_master"
  /\ UNCHANGED <<cluster_vars, ticks, faults, fn, life_vars>>

\* success_master, CURRENT_MASTER = get_master_from_proxysql(), one
\* invocation under keeptrying(max_retry_count=None).  The invocation
\* gives (False, None) when ProxySQL cannot be reached or a statement raises
\* (a fault) and when the writer hostgroup does not hold exactly one row;
\* after such a result the decorator sleeps.  A successful result is
\* returned, and get_proxysql_state_from_nodes_in_host_groups, under the
\* same decorator, builds the initial state (then the hotkey); an
\* invocation of it that fails is repeated and changes nothing.
get_master_try ==
  /\ pc = "get_master"
  /\ \E f \in LifeMayFail(faults) :
       LET result == IF f THEN [ok |-> FALSE, host |-> NoneVal]
                     ELSE get_master_from_proxysql(mem)
       IN  IF result.ok
             THEN /\ CURRENT_MASTER' = result.host
                  /\ UNCHANGED faults
                  /\ ALL_NODES' =
                       get_proxysql_state_from_nodes_in_host_groups(mem, HostGroups)
                  /\ pc' = "idle"
             ELSE /\ pc' = "get_master_sleep"
                  /\ faults' = faults + Fault(f)
                  /\ UNCHANGED <<CURRENT_MASTER, ALL_NODES>>
  /\ UNCHANGED <<up, first_up, gtid, mem, Master_Host, OLD_CURRENT_MASTER,
                 OLD_ALL_NODES, recognized_nodes, contenders, contender_gtids,
                 election, last, calls, ticks, fn, life_vars>>

\* time.sleep(interval) of the decorator, then the next pass of its loop
get_master_sleep ==
  /\ pc = "get_master_sleep"
  /\ pc' = "get_master"
  /\ UNCHANGED <<cluster_vars, calls, ticks, faults, fn, life_vars>>

\* while not stop: an iteration starts, with the daily report when it is due
Iteration ==
  /\ pc = "idle"
  /\ ~stop
  /\ ticks < MaxTicks
  /\ \E t \in Later(now) :
       /\ now' = t
       /\ IF daily_report_due(t, last_sent)
            THEN /\ calls' = Append(calls,
                       Call("send_email", NoneVal,
                            generate_daily_report_email_text, TRUE))
                 /\ daily' = [daily EXCEPT ![t.date] = @ + 1]
                 /\ last_sent' = <<t>>
            ELSE UNCHANGED <<calls, daily, last_sent>>
  /\ pc' = "tick"
  /\ UNCHANGED <<cluster_vars, ticks, faults, fn, kv, IGNORE_START_WARNING,
                 user_ignored_start_warning, stop, exit_code>>

\* the rest of the iteration is the loop's: the copy of the snapshot and
\* the fetch of the recognized nodes, then the primary check, the failover,
\* the loop over the recognized nodes, the notification and the sleep
IterationFetch == TickStartAt("tick")

\* the fetch failed: time.sleep(SLEEP_INTERVAL); continue
IterationSkipped == TickSkippedAt("tick")

\* the places of the loop
LoopPlaces == {"idle", "tick", "check", "reconcile", "sleep"}

\* stop_program, run by the hotkey at any moment of the loop: stop = True
stop_program ==
  /\ pc \in LoopPlaces
  /\ ~stop
  /\ stop' = TRUE
  /\ UNCHANGED <<cluster_vars, pc, calls, ticks, faults, fn, kv,
                 IGNORE_START_WARNING, user_ignored_start_warning, last_sent,
                 now, daily, exit_code>>

\* the loop has ended: delete_custom_value_from_proxysql_db(LOCK_VARIABLE),
\* whose failure is logged; the stop notification; the end of the script
Shutdown ==
  /\ pc = "idle"
  /\ stop
  /\ \E f \in LifeMayFail(faults) :
       \E r \in call_delete_custom_value_from_proxysql_db(kv, LOCK_VARIABLE, f) :
         /\ kv' = r.st
         /\ faults' = faults + Fault(f)
         /\ calls' = calls \o
              << Call("delete_custom_value_from_proxysql_db", NoneVal,
                      NoneVal, r.ok),
                 Call("send_email", NoneVal,
                      generate_script_stopped_safely_email_text, TRUE) >>
  /\ exit_code' = <<0>>
  /\ pc' = "stopped"
  /\ UNCHANGED <<cluster_vars, ticks, fn, IGNORE_START_WARNING,
                 user_ignored_start_warning, stop, last_sent, now, daily>>

LifeNext ==
  \/ InitCustomDb
  \/ LockUnreadable
  \/ LockAbsent
  \/ LockPresentIgnored
  \/ LockPresentAsked
  \/ Started
  \/ get_master_try
  \/ get_master_sleep
  \/ Iteration
  \/ IterationFetch
  \/ IterationSkipped
  \/ MasterOnline
  \/ MasterKeyError
  \/ Failover
  \/ Reconcile
  \/ Sleep
  \/ stop_program
  \/ Shutdown

LifeSpec == LifeInit /\ [][LifeNext]_vars

\* the startup on its own, up to the entry of the loop
StartupNext ==
  \/ InitCustomDb
  \/ LockUnreadable
  \/ LockAbsent
  \/ LockPresentIgnored
  \/ LockPresentAsked
  \/ Started
  \/ get_master_try
  \/ get_master_sleep

\* the startup keeps running while it has a statement to run
StartupFairSpec == LifeInit /\ [][StartupNext]_vars /\ WF_vars(StartupNext)

\* ------------------------------------------------------------- send_email
\* An email text is the sequence of the pieces that blank lines ("\n\n")
\* separate in it; the generators give "Subject: <subject>", a blank line,
\* and the body.
EmailText(subject, body) == <<[header |-> "Subject: ", subject |-> subject], body>>

\* the texts of the notifications of the script, and a text without a
\* blank line
EmailTexts ==
  {EmailText(subject, [html |-> subject]) :
     subject \in {generate_script_started_email_text(b) : b \in BOOLEAN}
                   \cup {generate_daily_report_email_text,
                         generate_script_stopped_safely_email_text,
                         "ALERT: MySQL Topology Change Detected"}}
    \cup {<<[html |-> "no blank line"]>>}

\* email_text.split('\n\n', 1)
split(email_text) ==
  IF Len(email_text) >= 2 THEN <<email_text[1], Tail(email_text)>>
                          ELSE email_text

\* send_email(email_text) with the environment variables set or not and the
\* way send_transac_email goes: the text is handed to the API and accepted,
\* or printed between "--- EMAIL START ---" and "--- EMAIL END ---", or
\* neither; an exception of the API call is logged
send_email(api_key, sender_email, email_text, transport) ==
  LET parts == split(email_text)
  IN  IF Len(parts) # 2
        THEN [accepted |-> FALSE, printed |-> TRUE,
              log |-> "Email text format invalid"]
      ELSE IF ~api_key \/ ~sender_email
        THEN [accepted |-> FALSE, printed |-> TRUE,
              log |-> "BREVO_API_KEY or SENDER_EMAIL not set"]
      ELSE IF transport = "accepted"
        THEN [accepted |-> TRUE, printed |-> FALSE,
              log |-> "Successfully sent email notification"]
      ELSE [accepted |-> FALSE, printed |-> FALSE, log |-> transport]

MailInit ==
  /\ fn \in {[api_key |-> k, sender_email |-> e, email_text |-> t,
               transport |-> x, out |-> <<>>] :
               k \in BOOLEAN, e \in BOOLEAN, t \in EmailTexts,
               x \in {"accepted", "ApiException", "Exception"}}
  /\ ClusterUnbuilt({})
  /\ LifeRunning
  /\ pc = "fn" /\ calls = <<>> /\ ticks = 0 /\ faults = 0

MailSend ==
  /\ fn.out = <<>>
  /\ fn' = [fn EXCEPT !.out = <<send_email(fn.api_key, fn.sender_email,
                                           fn.email_text, fn.transport)>>]
  /\ UNCHANGED <<cluster_vars, life_vars, pc, calls, ticks, faults>>

MailNext == MailSend

MailSpec == MailInit /\ [][MailNext]_vars

\* ------------------------------------------- ProxySQL: one call at a time
\* the hostnames and the values of the status column of the tables the
\* functions are run on
ProxyHosts == {"A", "B"}

RawStatuses == {"ONLINE", "online", "OFFLINE_HARD"}

\* mysql_servers has one row per (hostgroup_id, hostname, port)
ProxyTables ==
  {t \in SUBSET {Row(hg, h, st) : hg \in HostGroups, h \in ProxyHosts,
                                   st \in RawStatuses} :
     /\ Cardinality(t) <= MaxRows
     /\ \A r1, r2 \in t : (r1.hg = r2.hg /\ r1.host = r2.host) => r1 = r2}

\* the hostgroups a caller can ask for
HostGroupLists == (SUBSET HostGroups) \ {{}}

\* A call of one of the functions on a routing table: op is the function,
\* node and host_groups its arguments, before the three layers of the table
\* when the call starts, result what the call returns and leaves
ProxyInit ==
  /\ \E tbl \in ProxyTables :
       /\ ClusterUnbuilt(tbl)
       /\ fn = [op |-> NoneVal, node |-> NoneVal, host_groups |-> {},
                before |-> Proxy(tbl), result |-> <<>>]
  /\ LifeRunning
  /\ pc = "fn" /\ calls = <<>> /\ ticks = 0 /\ faults = 0

\* get_proxysql_state_from_nodes_in_host_groups(host_groups): (False, {})
\* when the connection or the query fails
StatusMapCall ==
  /\ fn.result = <<>>
  /\ \E host_groups \in HostGroupLists, ok \in BOOLEAN :
       fn' = [fn EXCEPT
                !.op = "get_proxysql_state_from_nodes_in_host_groups",
                !.host_groups = host_groups,
                !.result = <<[ok |-> ok,
                              st |-> fn.before,
                              map |-> IF ok
                                THEN get_proxysql_state_from_nodes_in_host_groups(
                                       mem, host_groups)
                                ELSE EmptyMap]>>]
  /\ UNCHANGED <<cluster_vars, life_vars, pc, calls, ticks, faults>>

\* set_proxysql_master(selected_node), through its retries
SetMasterCall ==
  /\ fn.result = <<>>
  /\ \E selected_node \in ProxyHosts, f \in BOOLEAN :
     \E r \in call_set_proxysql_master(mem, selected_node, f) :
       /\ fn' = [fn EXCEPT !.op = "set_proxysql_master",
                           !.node = selected_node,
                           !.result = <<[ok |-> r.ok, st |-> r.st,
                                         map |-> EmptyMap]>>]
       /\ mem' = r.st.mem
  /\ UNCHANGED <<up, first_up, gtid, Master_Host, CURRENT_MASTER, ALL_NODES,
                 OLD_CURRENT_MASTER, OLD_ALL_NODES, recognized_nodes,
                 contenders, contender_gtids, election, last>>
  /\ UNCHANGED <<life_vars, pc, calls, ticks, faults>>

\* _move_node_to_broken_hg(selected_node), through its retries
MoveToBrokenCall ==
  /\ fn.result = <<>>
  /\ \E selected_node \in ProxyHosts, f \in BOOLEAN :
     \E r \in call_set_proxysql_node(mem, selected_node, "broken", f) :
       /\ fn' = [fn EXCEPT !.op = "_move_node_to_broken_hg",
                           !.node = selected_node,
                           !.result = <<[ok |-> r.ok, st |-> r.st,
                                         map |-> EmptyMap]>>]
       /\ mem' = r.st.mem
  /\ UNCHANGED <<up, first_up, gtid, Master_Host, CURRENT_MASTER, ALL_NODES,
                 OLD_CURRENT_MASTER, OLD_ALL_NODES, recognized_nodes,
                 contenders, contender_gtids, election, last>>
  /\ UNCHANGED <<life_vars, pc, calls, ticks, faults>>

ProxyNext ==
  \/ StatusMapCall
  \/ SetMasterCall
  \/ MoveToBrokenCall

ProxySpec == ProxyInit /\ [][ProxyNext]_vars

\* ------------------------------------------------------------- properties
\* the rows of the writer hostgroup, and the hostgroups a node has rows in
WriterRows == {r \in mem : r.hg = WRITE_HG}

GroupsOf(n) == {r.hg : r \in {x \in mem : x.host = n}}

\* the calls of the current tick to the operations ops
CallsOf(ops) == {i \in DOMAIN calls : calls[i].op \in ops}

ProxyWrites ==
  {"set_proxysql_master", "set_proxysql_status", "move_node_to_broken_hg"}

\* the tick has run to its end
TickDone == pc = "sleep"

\* the static quorum over N recognized nodes
Quorum(N) == (N \div 2) + 1

\* nodes whose snapshot status is online, the former primary left out
OnlineNodes(all_nodes, former) ==
  {n \in DOMAIN all_nodes : all_nodes[n] = "online" /\ n # former}

\* some contender's GTID set contains the set of every other contender
Dominated(cg) ==
  \E a \in DOMAIN cg : \A b \in DOMAIN cg : cg[b] \subseteq cg[a]

\* C1 (quorum gate): a tick sets the writer and moves the primary pointer
\* to the winner only if the nodes whose snapshot status was online when
\* the election ran, not counting the unreachable former primary, number at
\* least floor(N/2)+1, N being the number of recognized nodes.
C1_QuorumGate ==
  CURRENT_MASTER # OLD_CURRENT_MASTER =>
    Cardinality(OnlineNodes(Restrict(OLD_ALL_NODES, Recognized),
                            OLD_CURRENT_MASTER))
      >= Quorum(Len(recognized_nodes))

\* C2 (single writer): after every tick in which the primary pointer is not
\* None, the writer hostgroup has exactly one row.
C2_SingleWriter ==
  (pc = "sleep" /\ CURRENT_MASTER # NoneVal) => Cardinality(WriterRows) = 1

\* C3 (primary coherence): at the end of every tick the primary pointer is
\* the hostname of the single row of the writer hostgroup, or the tick
\* recorded a failed write to ProxySQL.
C3_PrimaryCoherence ==
  TickDone =>
    \/ WriterRows # {} /\ \A r \in WriterRows : r.host = CURRENT_MASTER
    \/ \E i \in CallsOf(ProxyWrites) : ~calls[i].ok

\* C4 (broken isolation): after every tick, no node whose snapshot status
\* is broken has a row in the writer or the reader hostgroup.
C4_BrokenIsolation ==
  pc = "sleep" =>
    \A n \in DOMAIN ALL_NODES :
      ALL_NODES[n] = "broken" => GroupsOf(n) \cap {WRITE_HG, READ_HG} = {}

\* C5 (broken is terminal): a node whose snapshot status is broken keeps
\* that status for as long as it stays recognized; no call of a tick (set
\* writer, stop replication, configure, quarantine, status write) is for a
\* node that was broken when the tick started, and no such node is a
\* contender of the election.
C5_BrokenTerminal ==
  [][/\ \A n \in DOMAIN ALL_NODES :
          (ALL_NODES[n] = "broken" /\ n \in DOMAIN ALL_NODES')
            => ALL_NODES'[n] = "broken"
     /\ \A i \in DOMAIN calls' :
          StatusOf(OLD_ALL_NODES', calls'[i].node) # "broken"
     /\ \A n \in contenders' : StatusOf(OLD_ALL_NODES', n) # "broken"]_vars

\* a node that stood for election in the previous tick became broken in
\* it; in this tick it answers, an election ran without it, and it is
\* still broken at the end
C5_Witness ==
  /\ TickDone
  /\ election # "none"
  /\ \E n \in last.contenders :
       /\ n \in first_up
       /\ OLD_ALL_NODES[n] = "broken"
       /\ ALL_NODES[n] = "broken"
       /\ n \notin contenders

\* C6 (no promotion without a winner): when the election has no contender,
\* no contender with a GTID set, or no contender whose GTID set contains
\* every other's, the tick calls neither set_proxysql_master nor
\* stop_replication and the primary pointer stays what it was.
C6_NoPromotionWithoutWinner ==
  (election # "none" /\ ~Dominated(contender_gtids)) =>
    /\ CallsOf({"set_proxysql_master", "stop_replication"}) = {}
    /\ CURRENT_MASTER = OLD_CURRENT_MASTER

\* a tick ended whose election had two contenders with GTID sets neither of
\* which contains the other
C6_Witness ==
  /\ TickDone
  /\ election = "diverged"
  /\ Cardinality(DOMAIN contender_gtids) = 2
  /\ ~Dominated(contender_gtids)

\* the election of the tick was ambiguous: the contenders reported GTID
\* sets none of which contains all the others
Ambiguous ==
  /\ election # "none"
  /\ DOMAIN contender_gtids # {}
  /\ ~Dominated(contender_gtids)

\* the tick had an election, fewer than a quorum of the recognized nodes
\* answered and no writer was set
QuorumLost ==
  /\ election # "none"
  /\ Cardinality(first_up) < Quorum(Len(recognized_nodes))
  /\ \A i \in CallsOf({"set_proxysql_master"}) : ~calls[i].ok

\* the failover of the tick was refused
Refused == Ambiguous \/ QuorumLost

\* C7 (primary cleared when failover is refused): at the end of a tick
\* whose failover was refused, because the election was ambiguous or the
\* quorum was lost, the primary pointer is None.
C7_PrimaryCleared ==
  (TickDone /\ Refused) => CURRENT_MASTER = NoneVal

\* C8 (ambiguous election is retried): when the previous tick's election
\* was ambiguous and the nodes that answer and the GTID sets they report
\* are the same in this tick, the election of this tick has the same
\* contenders and sets no writer.
C8_AmbiguousRetried ==
  (election # "none" /\ last.election = "diverged" /\ last.same) =>
    /\ contenders = last.contenders
    /\ CallsOf({"set_proxysql_master"}) = {}

\* the tick is the failover of a healthy three-node cluster whose primary A
\* is lost while B and C answer, B's GTID set containing C's; every read
\* and every write of the tick succeeds and replication comes up healthy
CleanFailoverCase ==
  /\ OLD_CURRENT_MASTER = "A"
  /\ OLD_ALL_NODES = [n \in Nodes |-> "online"]
  /\ Recognized = Nodes
  /\ first_up = {"B", "C"}
  /\ up = {"B", "C"}
  /\ gtid["B"] # {}
  /\ gtid["C"] \subseteq gtid["B"]
  /\ election \notin {"none", "no_oracle"}
  /\ \A i \in DOMAIN calls :
       /\ calls[i].ok
       /\ calls[i].op = "set_replication_source" => calls[i].arg.code = 0

\* C9 (clean failover): the failover tick of the case above calls
\* set_proxysql_master(B), then stop_replication(B), then
\* set_replication_source(B, C); at its end the primary is B, A is offline,
\* B and C are online, and one topology-change notification was sent.
C9_CleanFailover ==
  (TickDone /\ CleanFailoverCase) =>
    /\ CURRENT_MASTER = "B"
    /\ ALL_NODES = [n \in Nodes |-> IF n = "A" THEN "offline" ELSE "online"]
    /\ \E i, j, k \in DOMAIN calls :
         /\ i < j /\ j < k
         /\ calls[i].op = "set_proxysql_master" /\ calls[i].node = "B"
         /\ calls[j].op = "stop_replication" /\ calls[j].node = "B"
         /\ calls[k].op = "set_replication_source" /\ calls[k].node = "C"
         /\ calls[k].arg.master = "B"
    /\ Cardinality(CallsOf({"send_email"})) = 1

\* the tick found the desired state: the primary answers, every recognized
\* node answers and was online, every row of the routing table is ONLINE,
\* and every replica was found replicating from the primary already
DesiredState ==
  /\ ticks > 0
  /\ recognized_nodes # <<>>
  /\ election = "none"
  /\ pc \in {"reconcile", "sleep"}
  /\ up = Recognized
  /\ DOMAIN OLD_ALL_NODES = Recognized
  /\ \A n \in Recognized : OLD_ALL_NODES[n] = "online"
  /\ \A i \in DOMAIN calls :
       calls[i].op = "set_replication_source" =>
         /\ calls[i].ok
         /\ calls[i].arg.code = 0
         /\ ~calls[i].arg.touched

\* C10 (reconcile is idempotent on the proxy): a tick that finds the desired
\* state issues no write to ProxySQL.
C10_NoProxyWrite ==
  (TickDone /\ DesiredState) => CallsOf(ProxyWrites) = {}

TypeOK ==
  /\ pc \in {"idle", "check", "reconcile", "sleep", "crashed"}
  /\ CURRENT_MASTER \in Nodes \cup {NoneVal}
  /\ DOMAIN ALL_NODES \subseteq Nodes

\* the node already replicates from the intended master with both threads
\* running, and the invocation gets to read SHOW SLAVE STATUS
AlreadyHealthy ==
  /\ fn.st.src = fn.master
  /\ fn.o.at \notin {"connect", "show"}
  /\ fn.o.io1 /\ fn.o.sql1

\* C11 (configure_replica is idempotent): called for a node that already
\* replicates from the intended master with both threads running,
\* set_replication_source returns (True, 0), issues no STOP SLAVE (so no
\* CHANGE MASTER and no START SLAVE, which come after it) and leaves the
\* Master_Host of the node as it was.
C11_Idempotent ==
  (fn.result # <<>> /\ AlreadyHealthy) =>
    /\ fn.result[1].ok
    /\ fn.result[1].code = 0
    /\ ~fn.result[1].st.touched
    /\ fn.result[1].st.src = fn.st.src

C11_Witness ==
  /\ fn.result # <<>>
  /\ AlreadyHealthy
  /\ fn.result[1].ok
  /\ ~fn.result[1].st.touched

\* C12 (change notification exactly on change): at the end of a tick one
\* topology-change notification was sent if the primary pointer differs
\* from its value at the start of the tick or the status map differs from
\* the copy taken at the start of the tick, and none was sent otherwise.
C12_NotifiedIffChanged ==
  TickDone =>
    /\ Cardinality(CallsOf({"send_email"})) <= 1
    /\ CallsOf({"send_email"}) # {}
         <=> (CURRENT_MASTER # OLD_CURRENT_MASTER \/ ALL_NODES # OLD_ALL_NODES)

\* a tick ended that kept the primary and changed the status of a node, and
\* the notification was sent
C12_Witness ==
  /\ TickDone
  /\ CURRENT_MASTER = OLD_CURRENT_MASTER
  /\ ALL_NODES # OLD_ALL_NODES
  /\ CallsOf({"send_email"}) # {}

\* the step that starts an iteration
IterationStarts == pc = "idle" /\ pc' = "tick"

\* C13 (daily report at most once per day): a daily report is sent only by
\* an iteration whose clock reading is in the report hour, never a second
\* time on a calendar date, and the first iteration of a date that falls in
\* the report hour sends it.
C13_DailyReportOncePerDay ==
  [][/\ \A d \in Dates : daily'[d] <= 1
     /\ daily' # daily =>
          /\ IterationStarts
          /\ now'.hour = EMAIL_SEND_HOUR
          /\ daily' = [daily EXCEPT ![now'.date] = 1]
          /\ calls'[Len(calls')].arg = generate_daily_report_email_text
     /\ (IterationStarts /\ now'.hour = EMAIL_SEND_HOUR
           /\ daily[now'.date] = 0) => daily'[now'.date] = 1
     /\ daily' = daily => calls' = calls \/ pc' # pc]_vars

\* a second iteration in the report hour of a date whose report an earlier
\* iteration sent
C13_Witness ==
  /\ now.hour = EMAIL_SEND_HOUR
  /\ last_sent # <<>>
  /\ last_sent[1].date = now.date
  /\ last_sent[1].at < now.at
  /\ daily[now.date] = 1

\* the reads of the lock at startup that succeeded, and what they found
LockReads ==
  {i \in CallsOf({"get_custom_value_from_proxysql_db"}) : calls[i].ok}

LockWasAbsent == \E i \in LockReads : calls[i].arg = NoneVal

LockWasPresent == \E i \in LockReads : calls[i].arg # NoneVal

\* the start notifications sent so far
StartEmails ==
  {i \in CallsOf({"send_email"}) :
     calls[i].arg \in {generate_script_started_email_text(b) : b \in BOOLEAN}}

\* the loop is running: the startup is over and the shutdown has not begun
LoopRunning == pc \in LoopPlaces

\* C14 (lock acquisition): when the startup found no lock, the lock is in
\* the custom table with value "1" once the loop runs, the user was not
\* asked, and the start notification is the normal one.
C14_LockAcquired ==
  (LoopRunning /\ LockWasAbsent) =>
    /\ kv.exists /\ kv.lock = "1"
    /\ CallsOf({"input"}) = {}
    /\ \A i \in StartEmails :
         calls[i].arg = generate_script_started_email_text(FALSE)

\* C15 (lock held while running): from the end of the lock step of the
\* startup to the start of the orderly shutdown the lock is in the custom
\* table.
C15_LockHeldWhileRunning ==
  pc \in {"started", "get_master", "get_master_sleep"} \cup LoopPlaces =>
    kv.exists /\ kv.lock # NoneVal

\* C16 (orderly shutdown releases the lock): after the loop ended through
\* the stop flag, delete_custom_value_from_proxysql_db was called once and
\* the stop notification was sent once, after it, and when the delete
\* returned True the lock is not in the custom table.
C16_ShutdownReleasesLock ==
  pc = "stopped" =>
    /\ stop
    /\ Cardinality(CallsOf({"delete_custom_value_from_proxysql_db"})) = 1
    /\ \A i \in CallsOf({"delete_custom_value_from_proxysql_db"}) :
         /\ i + 1 = Len(calls)
         /\ calls[i + 1].op = "send_email"
         /\ calls[i + 1].arg = generate_script_stopped_safely_email_text
         /\ calls[i].ok => kv.lock = NoneVal
    /\ \A j \in CallsOf({"send_email"}) :
         calls[j].arg = generate_script_stopped_safely_email_text
           => j = Len(calls)

\* an orderly shutdown of a process that had set the lock at startup: the
\* delete returned True and the lock is gone
C16_Witness ==
  /\ pc = "stopped"
  /\ \E i \in CallsOf({"upsert_custom_value_in_proxysql_db"}) : calls[i].ok
  /\ \E i \in CallsOf({"delete_custom_value_from_proxysql_db"}) : calls[i].ok
  /\ kv.lock = NoneVal

\* the startup went on after the lock step
Proceeded ==
  \/ pc \in {"started", "get_master", "get_master_sleep", "stopped",
              "crashed"} \cup LoopPlaces
  \/ StartEmails # {}

\* the process ended in the startup: no start notification, no iteration,
\* no statement on mysql_servers
ExitedAtStartup ==
  /\ pc = "exited"
  /\ StartEmails = {}
  /\ ticks = 0
  /\ mem \in LifeTables
  /\ CallsOf(ProxyWrites) = {}

\* C17 as stated (dangerous-start confirmation): with the lock present
\* stdin is read iff IGNORE_START_WARNING is false; with the flag the
\* process goes on; without it the process goes on only when the answer is
\* 'y' and otherwise ends in the startup.
C17_ProceedsOnlyOnY ==
  LockWasPresent =>
    /\ CallsOf({"input"}) # {} <=> ~IGNORE_START_WARNING
    /\ IGNORE_START_WARNING => Proceeded
    /\ \A i \in CallsOf({"input"}) :
         IF calls[i].arg = "y" THEN Proceeded ELSE ExitedAtStartup

\* C17 (dangerous-start confirmation): as above, with the answers that go
\* on being 'y' and 'Y'; any other answer, and a closed stdin, end the
\* process in the startup.  Without the lock stdin is never read.
C17_ProceedsOnYAnyCase ==
  /\ LockWasPresent =>
       /\ CallsOf({"input"}) # {} <=> ~IGNORE_START_WARNING
       /\ IGNORE_START_WARNING => Proceeded
       /\ \A i \in CallsOf({"input"}) :
            IF calls[i].arg \in {"y", "Y"} THEN Proceeded
            ELSE ExitedAtStartup
  /\ ~LockWasPresent => CallsOf({"input"}) = {}

\* the user answered 'Y' and the loop runs
C17_Witness ==
  /\ LockWasPresent
  /\ \E i \in CallsOf({"input"}) : calls[i].arg = "Y"
  /\ LoopRunning
  /\ ticks > 0

\* C18 (dangerous start is recorded): the start notification is the
\* dangerous one when the startup found the lock, and the normal one when it
\* did not.
C18_DangerousStartRecorded ==
  \A i \in StartEmails :
    calls[i].arg = generate_script_started_email_text(LockWasPresent)

\* the calls of the startup that returned a failure after their retries
InitFailed == \E i \in CallsOf({"_init_custom_db"}) : ~calls[i].ok

ReadFailed ==
  \E i \in CallsOf({"get_custom_value_from_proxysql_db"}) : ~calls[i].ok

\* the fatal exit of the startup with exit status code: nothing was sent, no
\* iteration ran, no statement on mysql_servers, no write of the lock
FatalExit(code) ==
  /\ ExitedAtStartup
  /\ exit_code = <<code>>
  /\ CallsOf({"send_email", "input", "upsert_custom_value_in_proxysql_db",
              "delete_custom_value_from_proxysql_db"}) = {}
  /\ kv.lock \in {NoneVal, "1"}

\* C19 (fatal configuration exit): when the lock step of the startup is
\* over and the custom table is not there or the read of the lock failed
\* after its retries, the process has ended with exit code 1001 before the
\* start notification and the loop, with no write to mysql_servers or to the
\* lock.
C19_FatalConfigurationExit ==
  (pc \notin {"start", "lock"} /\ (~kv.exists \/ ReadFailed)) => FatalExit(1001)

\* C20 (only fatal configuration aborts the process): whatever the loop
\* observes of the cluster and of ProxySQL, no iteration ends the process.
C20_LoopNeverAborts == pc # "crashed"

\* the invocations of a call through the decorator, and its sleeps
Invocations == {i \in DOMAIN fn.events : fn.events[i].ev = "func"}

Sleeps == {i \in DOMAIN fn.events : fn.events[i].ev = "sleep"}

\* the results that report success: True, and a tuple that starts with True
SuccessResults == {Bare(TRUE)} \cup {Tuple(<<TRUE, v>>) : v \in {0, -1}}

Succeeded(i) == fn.events[i].result \in SuccessResults

Failed(i) == fn.events[i].result \in FuncResults \ SuccessResults

\* every failure result is followed by a sleep of interval, and every
\* success result by nothing but the return of that result
SuccessEndsCall ==
  \A i \in Invocations :
    LET result == fn.events[i].result
    IN  /\ Succeeded(i) =>
             /\ i = Len(fn.events)
             /\ fn.at = "returned"
             /\ fn.result = <<result>>
        /\ Failed(i) =>
             /\ i < Len(fn.events)
             /\ fn.events[i + 1] = Slept(fn.interval)

\* C21 as stated (the harness returns on the first success): a success
\* result ends the call at once with that result, and a failure result is
\* followed by a sleep of interval and another invocation.
C21_FailureIsRetried ==
  fn.at = "returned" =>
    /\ SuccessEndsCall
    /\ \A i \in Invocations : Failed(i) => i + 2 \in Invocations

\* C21 (the harness returns on the first success): as above, the invocation
\* after a failure being made unless max_retry_count + 1 invocations were
\* made already; the sleep is made after the last failure as well.
C21_ReturnsOnFirstSuccess ==
  /\ \A i \in Sleeps : i - 1 \in Invocations
  /\ fn.at = "returned" =>
       /\ SuccessEndsCall
       /\ \A i \in Invocations :
            Failed(i) =>
              \/ i + 2 \in Invocations
              \/ /\ i + 1 = Len(fn.events)
                 /\ fn.max_retry_count # <<>>
                 /\ Cardinality(Invocations) = fn.max_retry_count[1] + 1

\* a call that failed once and then returned a successful tuple
C21_Witness ==
  /\ fn.at = "returned"
  /\ Cardinality(Invocations) = 2
  /\ fn.result = <<Tuple(<<TRUE, -1>>)>>
  /\ Sleeps = {2}

\* C22 (the harness is bounded when max_retry_count is finite): at most
\* max_retry_count + 1 invocations are made, and a call whose invocations
\* all failed returns after exactly that many with the result of the last.
C22_BoundedRetries ==
  fn.max_retry_count # <<>> =>
    /\ Cardinality(Invocations) <= fn.max_retry_count[1] + 1
    /\ (fn.at = "returned" /\ fn.result # <<>>
          /\ fn.result[1] \notin SuccessResults) =>
         /\ Cardinality(Invocations) = fn.max_retry_count[1] + 1
         /\ fn.result[1] = fn.events[Len(fn.events) - 1].result
    /\ fn.at = "returned" => fn.result # <<>>
    /\ (fn.at = "while" /\ fn.tries <= fn.max_retry_count[1]) =>
         ENABLED wrapper_try

\* max_retry_count = 0 and the one invocation failed: its result is returned
C22_Witness ==
  /\ fn.max_retry_count = <<0>>
  /\ fn.at = "returned"
  /\ Cardinality(Invocations) = 1
  /\ fn.result = <<Bare(FALSE)>>

\* C23 (the harness never raises): no call through the decorator ends with
\* an exception.
C23_NeverRaises == fn.at # "raised"

\* C24 (split-brain is escalated, not blocking): the read of the writer
\* hostgroup at startup comes to an end and the loop is entered, also when
\* the hostgroup holds more than one row.
C24_SplitBrainContinues == (pc = "get_master") ~> (pc = "idle")

\* C25 (cancellation leads to cleanup): once stop is set while the loop
\* runs, the process does not end before the cleanup: the iteration in
\* progress runs to its end and the only way out of the loop is the
\* shutdown that deletes the lock and sends the stop notification.
C25_CancellationLeadsToCleanup ==
  stop =>
    /\ pc \in LoopPlaces \cup {"stopped"}
    /\ pc = "stopped" =>
         /\ CallsOf({"delete_custom_value_from_proxysql_db"}) # {}
         /\ calls[Len(calls)].arg = generate_script_stopped_safely_email_text

\* C26 (no silent drop of notifications): every text given to send_email
\* is accepted by the email API or printed between the markers.
C26_NoSilentDrop ==
  fn.out # <<>> => fn.out[1].accepted \/ fn.out[1].printed

\* the status the routing table gives a node
RoutedAs(n) ==
  StatusOf(get_proxysql_state_from_nodes_in_host_groups(mem, HostGroups), n)

\* C27 (failed proxy writes are re-asserted): at the end of a tick, every
\* recognized replica that the routing table does not give the status of
\* the snapshot had a write issued for it in this tick, so a write that
\* failed in an earlier tick is issued again.
C27_FailedWritesReasserted ==
  TickDone =>
    \A n \in (Recognized \cap DOMAIN ALL_NODES) \ {CURRENT_MASTER} :
      RoutedAs(n) # ALL_NODES[n] =>
        \E i \in CallsOf(ProxyWrites) : calls[i].node = n

\* the nodes the tick asked ProxySQL to make the writer
Elected == {calls[i].node : i \in CallsOf({"set_proxysql_master"})}

\* the contenders whose GTID set contains the set of every other contender
Dominating(cg) == {a \in DOMAIN cg : \A b \in DOMAIN cg : cg[b] \subseteq cg[a]}

\* C28 (election soundness): the winner of an election is a contender
\* whose GTID set contains the GTID set of every other contender that
\* reported one; and an election that can connect to its check node and has
\* such a contender returns a winner.
C28_ElectionSoundness ==
  election # "none" =>
    /\ Elected \subseteq Dominating(contender_gtids)
    /\ election = "winner" => Cardinality(Elected) = 1
    /\ (Dominating(contender_gtids) # {} /\ election # "no_oracle")
         => election = "winner"

\* an election between two contenders of which one has a transaction more
C28_Witness ==
  /\ election = "winner"
  /\ Cardinality(DOMAIN contender_gtids) = 2
  /\ Cardinality(Dominating(contender_gtids)) = 1
  /\ Elected = Dominating(contender_gtids)

\* the place of a hostname in sorted order
Place(n) == CHOOSE i \in DOMAIN SortedNodes : SortedNodes[i] = n

\* C29 (deterministic tie-break): the winner of an election is, of the
\* contenders whose GTID set contains every other's, the one whose hostname
\* comes first in sorted order.
C29_DeterministicTieBreak ==
  election = "winner" =>
    \A w \in Elected :
      \A a \in Dominating(contender_gtids) : Place(w) <= Place(a)

\* C30 (no fallback when the oracle is unreachable): an election that
\* cannot connect to its check node has no winner: the tick calls neither
\* set_proxysql_master nor stop_replication and keeps its primary, also
\* when a contender's GTID set contains every other's.
C30_NoFallbackWithoutOracle ==
  election = "no_oracle" =>
    /\ Elected = {}
    /\ CallsOf({"stop_replication"}) = {}
    /\ CURRENT_MASTER = OLD_CURRENT_MASTER

\* a tick ended whose election had a contender containing the other one and
\* could not connect to its check node
C30_Witness ==
  /\ TickDone
  /\ election = "no_oracle"
  /\ Cardinality(DOMAIN contender_gtids) = 2
  /\ Dominating(contender_gtids) # {}
  /\ CURRENT_MASTER = OLD_CURRENT_MASTER

\* the failover step of the tick is over and the reconcile loop has not run
AfterFailover == pc = "reconcile" /\ election # "none"

\* C31 (failover step order): in a failover set_proxysql_master(winner) is
\* called before stop_replication(winner), which comes before the write of
\* the winner's online status that goes with the snapshot update; the
\* primary pointer changes only to a node for which set_proxysql_master
\* returned True; and when set_proxysql_master fails in the end, the pointer
\* and the statuses are as they were and stop_replication is not called.
C31_FailoverStepOrder ==
  AfterFailover =>
    /\ \A j \in CallsOf({"stop_replication"}) :
         \E i \in CallsOf({"set_proxysql_master"}) :
           i < j /\ calls[i].ok /\ calls[i].node = calls[j].node
    /\ \A k \in CallsOf({"set_proxysql_status"}) :
         \E j \in CallsOf({"stop_replication"}) :
           j < k /\ calls[j].node = calls[k].node /\ calls[k].arg = "online"
    /\ CURRENT_MASTER # OLD_CURRENT_MASTER =>
         /\ \E i \in CallsOf({"set_proxysql_master"}) :
              calls[i].ok /\ calls[i].node = CURRENT_MASTER
         /\ CallsOf({"stop_replication"}) # {}
         /\ ALL_NODES[CURRENT_MASTER] = "online"
    /\ (\E i \in CallsOf({"set_proxysql_master"}) : ~calls[i].ok) =>
         /\ CURRENT_MASTER = OLD_CURRENT_MASTER
         /\ ALL_NODES = Restrict(OLD_ALL_NODES, Recognized)
         /\ CallsOf({"stop_replication"}) = {}

\* a failover in which set_proxysql_master succeeded: the three calls were
\* made in order and the pointer names the winner
C31_Witness ==
  /\ AfterFailover
  /\ Len(calls) = 3
  /\ calls[1].op = "set_proxysql_master" /\ calls[1].ok
  /\ calls[2].op = "stop_replication"
  /\ calls[3].op = "set_proxysql_status"
  /\ CURRENT_MASTER = calls[1].node
  /\ CURRENT_MASTER # OLD_CURRENT_MASTER

\* the primary check of the tick has been made
PrimaryChecked == pc \in {"reconcile", "sleep", "crashed"}

\* C32 (failover on unrecognized primary): in a tick whose primary is not
\* among the nodes ProxySQL lists, the election runs over the remaining
\* nodes and the tick goes on to the reconcile loop.
C32_FailoverOnUnrecognizedPrimary ==
  (PrimaryChecked /\ OLD_CURRENT_MASTER \notin Recognized) =>
    /\ election # "none"
    /\ pc # "crashed"

\* the recognized nodes the reconcile loop deals with: not the primary, and
\* not broken when the loop comes to them
Replicas ==
  {n \in Recognized \ {CURRENT_MASTER} : StatusOf(OLD_ALL_NODES, n) # "broken"}

\* the calls of the tick to set_replication_source for node n
ConfigureCalls(n) ==
  {i \in CallsOf({"set_replication_source"}) : calls[i].node = n}

\* the status the reconcile loop gives a replica: offline for a node that
\* does not answer or whose set_replication_source returned (False, 1),
\* online for (True, 0), broken for (True, -1)
Transition(n) ==
  IF ConfigureCalls(n) = {} THEN "offline"
  ELSE LET c == calls[CHOOSE i \in ConfigureCalls(n) : TRUE]
       IN  IF ~c.ok THEN "offline"
           ELSE IF c.arg.code = 0 THEN "online"
           ELSE "broken"

\* the last call of the tick is the write of status st for node n
WrittenLast(n, st) ==
  \E k \in CallsOf(ProxyWrites) :
    /\ calls[k].node = n
    /\ calls[k].arg = st
    /\ calls[k].op = (IF st = "broken" THEN "move_node_to_broken_hg"
                      ELSE "set_proxysql_status")
    /\ \A i \in DOMAIN calls :
         (calls[i].node = n /\ calls[i].op # "set_proxysql_master") => i <= k
    /\ calls[k].ok => RoutedAs(n) = st

\* C33 (per-replica transitions): at the end of a tick, every recognized
\* node that is not the primary and was not broken is offline if it did not
\* answer, and otherwise was passed once to set_replication_source with the
\* primary as master and is online for (True, 0), broken for (True, -1) and
\* offline for (False, 1); set_proxysql_node was called last for it with
\* that status (the move to the broken hostgroup for broken), and where the
\* write succeeded the routing table gives the node that status.  The
\* primary is not passed to set_replication_source and is not written
\* offline or broken.
C33_ReplicaTransitions ==
  TickDone =>
    /\ \A n \in Replicas :
         /\ n \in up => /\ Cardinality(ConfigureCalls(n)) = 1
                        /\ \A i \in ConfigureCalls(n) :
                             calls[i].arg.master = CURRENT_MASTER
         /\ n \notin up => ConfigureCalls(n) = {}
         /\ n \in DOMAIN ALL_NODES
         /\ ALL_NODES[n] = Transition(n)
         /\ WrittenLast(n, Transition(n))
    /\ ConfigureCalls(CURRENT_MASTER) = {}
    /\ \A i \in CallsOf(ProxyWrites) :
         calls[i].node = CURRENT_MASTER => calls[i].arg \notin {"offline", "broken"}

\* C34 (snapshot tracks the proxy): at the end of every tick, every node of
\* the status map has at least one row in the writer, reader or broken
\* hostgroup, also after a failover in which set_proxysql_master replaced
\* the row of the former primary; and a tick that has fetched the recognized
\* nodes keeps no node in the status map that the routing table did not
\* list.
C34_SnapshotTracksProxy ==
  /\ TickDone => \A n \in DOMAIN ALL_NODES : GroupsOf(n) # {}
  /\ pc = "check" => DOMAIN ALL_NODES \subseteq Recognized

\* C35 (the primary is never broken): in every state of the loop the node
\* CURRENT_MASTER names does not have the status broken in the snapshot; a
\* node that set_proxysql_master is called for was not broken when the tick
\* started; and no call of a tick moves its primary to the broken hostgroup.
C35_PrimaryNeverBroken ==
  /\ StatusOf(ALL_NODES, CURRENT_MASTER) # "broken"
  /\ \A n \in Elected : StatusOf(OLD_ALL_NODES, n) # "broken"
  /\ \A i \in CallsOf({"move_node_to_broken_hg"}) :
       calls[i].node # CURRENT_MASTER

\* a tick ended that promoted a node while a broken node answered
C35_Witness ==
  /\ TickDone
  /\ election = "winner"
  /\ CURRENT_MASTER # OLD_CURRENT_MASTER
  /\ CURRENT_MASTER \in Elected
  /\ \E n \in up : StatusOf(OLD_ALL_NODES, n) = "broken"

\* the call made was to function op and has returned
Returned(op) == fn.op = op /\ fn.result # <<>>

\* the rows the status map was asked for, and those of them of host h
Requested == {r \in fn.before.mem : r.hg \in fn.host_groups}

RowsOf(h) == {r \in Requested : r.host = h}

\* the status map returned has one key per host with a requested row, and
\* gives a host broken if one of its rows is in hostgroup 30, else online if
\* every row of it has a status of the set online_values, else offline
StatusMapIs(online_values) ==
  (Returned("get_proxysql_state_from_nodes_in_host_groups")
     /\ fn.result[1].ok) =>
    /\ DOMAIN fn.result[1].map = {r.host : r \in Requested}
    /\ \A h \in DOMAIN fn.result[1].map :
         fn.result[1].map[h] =
           IF \E r \in RowsOf(h) : r.hg = BROKEN_HG THEN "broken"
           ELSE IF \A r \in RowsOf(h) : r.st \in online_values THEN "online"
           ELSE "offline"

\* C36 as stated (unified status map): a host is broken if one of its rows
\* is in the broken hostgroup, otherwise online if every one of its rows
\* has the raw status ONLINE, otherwise offline; each host with a row in the
\* requested hostgroups appears once.
C36_StatusMapRaw == StatusMapIs({"ONLINE"})

\* C36 as the code has it: the same, the status of a row being compared
\* with ONLINE after upper-casing, so that a row whose status is written
\* in lower-case letters counts as ONLINE.
C36_StatusMapUpper == StatusMapIs({"ONLINE", "online"})

\* a map was returned that gives one host broken for a row in hostgroup 30
\* beside a reader row, and another host online for a lower-case status
C36_Witness ==
  /\ Returned("get_proxysql_state_from_nodes_in_host_groups")
  /\ fn.result[1].ok
  /\ \E h, g \in DOMAIN fn.result[1].map :
       /\ fn.result[1].map[h] = "broken"
       /\ Cardinality(RowsOf(h)) = 2
       /\ fn.result[1].map[g] = "online"
       /\ \E r \in RowsOf(g) : r.st = "online"

\* the rows of the writer hostgroup in a table
WriterRowsOf(tbl) == {r \in tbl : r.hg = WRITE_HG}

\* C37 (set_proxysql_master is all-or-nothing): when the call returns True,
\* the writer hostgroup is the one row of the selected node in the runtime
\* and on disk; when it returns False, the runtime and the disk have the
\* rows in the writer hostgroup that they had before the call.
C37_SetWriterAllOrNothing ==
  Returned("set_proxysql_master") =>
    LET r == fn.result[1]
    IN  /\ r.ok =>
             /\ WriterRowsOf(r.st.rt) = {Row(WRITE_HG, fn.node, "ONLINE")}
             /\ WriterRowsOf(r.st.disk) = {Row(WRITE_HG, fn.node, "ONLINE")}
        /\ ~r.ok =>
             /\ WriterRowsOf(r.st.rt) = WriterRowsOf(fn.before.rt)
             /\ WriterRowsOf(r.st.disk) = WriterRowsOf(fn.before.disk)

\* the rows of host h in a table, and the rows of the other hosts
HostRows(tbl, h) == {r \in tbl : r.host = h}

OtherRows(tbl, h) == {r \in tbl : r.host # h}

\* the three layers of a routing table
Layers == {"mem", "rt", "disk"}

\* C38 (quarantine postcondition and frame): after _move_node_to_broken_hg
\* returns True for a node, the node has exactly one row, which is in the
\* broken hostgroup, and the rows of every other host are the ones from
\* before the call; in mysql_servers, in the runtime and on disk.
C38_QuarantineFrame ==
  (Returned("_move_node_to_broken_hg") /\ fn.result[1].ok) =>
    \A l \in Layers :
      /\ HostRows(fn.result[1].st[l], fn.node)
           = {Row(BROKEN_HG, fn.node, "ONLINE")}
      /\ OtherRows(fn.result[1].st[l], fn.node)
           = OtherRows(fn.before[l], fn.node)

\* a node with a writer row and a reader row was quarantined beside a row
\* of another host
C38_Witness ==
  /\ Returned("_move_node_to_broken_hg")
  /\ fn.result[1].ok
  /\ {r.hg : r \in HostRows(fn.before.mem, fn.node)} = {WRITE_HG, READ_HG}
  /\ OtherRows(fn.before.mem, fn.node) # {}
  /\ {r.hg : r \in HostRows(mem, fn.node)} = {BROKEN_HG}

\* a tick is under way: the recognized nodes were fetched and the sleep at
\* its end is not reached
TickUnderWay == pc \in {"check", "reconcile"}

\* C39 (every tick terminates): the operations the loop invokes through the
\* retry decorator have a finite retry count, so a tick under way always
\* takes its next step (the primary found online or the failover, then the
\* reconcile loop), each of which returns, and so reaches the sleep at its
\* end, after which the loop checks the stop flag again.
C39_EveryTickTerminates ==
  TickUnderWay => ENABLED (MasterOnline \/ Failover \/ Reconcile)

\* the step is an iteration that ends where it started: get_proxysql_nodes
\* returned (False, []) and the loop went to sleep and on
SkippedTick == pc = "idle" /\ pc' = "idle" /\ ticks' = ticks + 1

\* C40 (a skipped tick changes nothing): an iteration in which the
\* recognized nodes cannot be fetched leaves the primary pointer, the status
\* map, the routing table and the replication source of every node as they
\* were, runs no election and makes no call (no write, no notification); the
\* loop is then at the start of its next iteration.
C40_SkippedTickChangesNothing ==
  [][SkippedTick =>
       /\ CURRENT_MASTER' = CURRENT_MASTER
       /\ ALL_NODES' = ALL_NODES
       /\ mem' = mem
       /\ Master_Host' = Master_Host
       /\ calls' = <<>> /\ calls = <<>>
       /\ election' = "none"
       /\ contenders' = {}
       /\ OLD_CURRENT_MASTER' = CURRENT_MASTER
       /\ OLD_ALL_NODES' = ALL_NODES]_vars

\* the tick after a failover was skipped: the loop is at the start of its
\* next iteration with the promoted primary and the status map kept
C40_Witness ==
  /\ pc = "idle"
  /\ ticks = 2
  /\ recognized_nodes = <<>>
  /\ faults = 1
  /\ CURRENT_MASTER = "B"
  /\ OLD_CURRENT_MASTER = "B"
  /\ DOMAIN ALL_NODES = Nodes
  /\ OLD_ALL_NODES = ALL_NODES
  /\ WriterRows = {Row(WRITE_HG, "B", "ONLINE")}
====
